---------------------------- MODULE Spec2Model ----------------------------
(***************************************************************************)
(* Road-monitoring backend: the sensor-window event detector               *)
(* (services/metrics.py), the per-frame event extraction                   *)
(* (services/video_pipeline.py) and the event store with its last-N tile   *)
(* aggregates (services/event_service.py).                                 *)
(*                                                                         *)
(* The module holds several specifications over one set of variables:      *)
(*   SpecMerge     one run of merge_metrics over a sensor CSV              *)
(*   SpecWindows   the same, with vision records and window-end samples    *)
(*   SpecWindow    one window of merge_metrics and its emitted event       *)
(*   SpecScore     the same, for windows scoring near the threshold        *)
(*   SpecParse     one call of parse_model_outputs_to_events               *)
(*   SpecInterp    interpolate_gps_for_frame in floating point             *)
(*   SpecTiles     the tile functions of utils/tiles.py                    *)
(*   SpecSeverity  the two severity functions                              *)
(*   Spec          the event service, one call at a time                   *)
(*   SpecConc      the event service, jobs interleaved at their awaits     *)
(*   SpecUpload    trigger_processing and the background task of an upload *)
(*   SpecUploadFair  the same, every started task and request running on   *)
(* A specification leaves the variables of the others at their idle        *)
(* values.                                                                 *)
(***************************************************************************)
EXTENDS Integers, Sequences, FiniteSets, TLC

VARIABLES
    \* ---- merge_metrics (services/metrics.py)
    csv_rows,        \* the rows of the sensor CSV, in file order
    cv_events,       \* the vision records of the two JSON files, sorted once loaded
    sensor_data,     \* parsed samples, sorted by timestamp once loaded
    i,               \* loop index of the detection loop (0-based, as enumerate)
    prev_flag,       \* trigger flag of the previous sample
    metric_events,   \* the list `events` built by merge_metrics
    merge_pc,        \* "idle" | "load" | "scan" | "save" | "done"
    \* ---- parse_model_outputs_to_events (services/video_pipeline.py)
    pothole_results,     \* per-frame damage detections
    congestion_results,  \* per-frame congestion detections
    gps_data,            \* location samples of the video
    parsed_events,       \* the list `events` the function returns
    parse_pc,            \* "idle" | "call" | "done"
    \* ---- event service (services/event_service.py)
    events,          \* committed rows of table events
    tile_aggregates, \* committed rows of table tile_aggregates, by tile_id
    now,             \* the database clock read by NOW()
    call,            \* the most recent completed call of the service
    jobs,            \* per job: position and session state (SpecConc)
    \* ---- upload processing (routers/uploads_s3.py, services/video_pipeline.py)
    processing_status, \* raw_uploads.processing_status of the upload
    triggers,          \* per request POST /{upload_id}/process: its position
    tasks,             \* per request: the background task it queued
    upload_events,     \* committed rows of table events with this upload_id
    video,             \* the uploaded video: its frames and the qualifying ones
    s3_video,          \* the video object is still in the bucket
    \* ---- pure functions (utils/tiles.py, services/video_pipeline.py)
    fn               \* the call of a function: its name, arguments and result

mergeVars == <<csv_rows, cv_events, sensor_data, i, prev_flag, metric_events, merge_pc>>
parseVars == <<pothole_results, congestion_results, gps_data, parsed_events, parse_pc>>
dbVars    == <<events, tile_aggregates, now, call>>
uploadVars == <<processing_status, triggers, tasks, upload_events, video, s3_video>>
vars      == <<mergeVars, parseVars, dbVars, jobs, fn, uploadVars>>

-----------------------------------------------------------------------------
(* Generic helpers *)

\* All sequences over S of length 0..n
SeqsUpTo(S, n) == UNION {[1..k -> S] : k \in 0..n}

Max2(a, b) == IF a >= b THEN a ELSE b

SetMax(S) == CHOOSE x \in S : \A y \in S : y <= x

-----------------------------------------------------------------------------
(*                      merge_metrics: services/metrics.py                 *)

WINDOW_SECONDS == 5

\* Rows of one CSV file
MaxRows == 6

\* The Time column, "HH:MM:SS.mmm", as [sec, msec]; hours and minutes are
\* left at 00. The Pothole column is the trigger flag.
CsvTimes == {[sec |-> 0, msec |-> 500], [sec |-> 1, msec |-> 0]}
Flags    == {0, 1}
CsvRow   == [Time : CsvTimes, Pothole : Flags]

\* datetime.strptime(..., "%Y-%m-%d %H:%M:%S.%f"): all rows of a file share
\* csv_date, so a datetime is its millisecond of the day.
parse_csv_timestamp(time) == time.sec * 1000 + time.msec

\* start_time.strftime("%Y-%m-%d %H:%M:%S"): the fraction of the second is
\* dropped. Fixed-width, zero-padded strings of one date order as the whole
\* seconds do, so the string is modelled by the second of the day.
strftime_seconds(dt) == dt \div 1000

\* One sample per row (the SensorType shape of the file)
ParseRow(row) ==
    [timestamp    |-> parse_csv_timestamp(row.Time),
     pothole_flag |-> row.Pothole]

\* list.sort(key=timestamp) is stable: a sample goes after every sample whose
\* timestamp is not greater.
RECURSIVE InsertByTimestamp(_, _)
InsertByTimestamp(sorted, x) ==
    IF sorted = <<>> THEN <<x>>
    ELSE IF sorted[Len(sorted)].timestamp <= x.timestamp
         THEN Append(sorted, x)
         ELSE Append(InsertByTimestamp(SubSeq(sorted, 1, Len(sorted) - 1), x),
                     sorted[Len(sorted)])

RECURSIVE SortedByTimestamp(_)
SortedByTimestamp(s) ==
    IF s = <<>> THEN <<>>
    ELSE InsertByTimestamp(SortedByTimestamp(SubSeq(s, 1, Len(s) - 1)), s[Len(s)])

\* A plausible slip: the sort of line 140 left out.
SortOmitted(s) == s

SortSensorData(s) == SortedByTimestamp(s)

\* A plausible slip: the previous flag starts as the flag of the first sample.
PrevFlagOfFirstSample(data) ==
    IF data = <<>> THEN 0 ELSE data[1].pothole_flag

\* `prev_flag = 0` before the detection loop
InitialPrevFlag(data) == 0

\* A plausible slip: trigger on the level of the flag, not on its edge.
TriggerOnLevel(prev, curr) == curr = 1

\* "Trigger on 0 -> 1 transition"
IsTrigger(prev, curr) == prev = 0 /\ curr = 1

\* A plausible slip: the end of the window left out of it.
WindowReadingsHalfOpen(data, start_time) ==
    LET end_time == start_time + WINDOW_SECONDS * 1000
    IN  {k \in 1..Len(data) :
            start_time <= data[k].timestamp /\ data[k].timestamp < end_time}

\* Samples of the stream inside [start, start + WINDOW_SECONDS]
WindowReadings(data, start_time) ==
    LET end_time == start_time + WINDOW_SECONDS * 1000
    IN  {k \in 1..Len(data) :
            start_time <= data[k].timestamp /\ data[k].timestamp <= end_time}

\* A plausible slip: the time bounds of the filter left out.
CvWindowUnbounded(timestamp, start_time) == TRUE

\* (start_time - timedelta(seconds=1)) <= e['timestamp'] <= end_time
InCvWindow(timestamp, start_time) ==
    /\ start_time - 1000 <= timestamp
    /\ timestamp <= start_time + WINDOW_SECONDS * 1000

\* Vision records of one kind inside [start - 1 s, start + WINDOW_SECONDS]
WindowCvRecords(cv, type, start_time) ==
    {k \in 1..Len(cv) : cv[k].type = type /\ InCvWindow(cv[k].timestamp, start_time)}

\* The summary of one window. src_index is the loop index at which the
\* window was opened; it is kept to tell the events of one run apart. The
\* statistics of the event are functions of three lists, kept here by the
\* positions of their members in sensor_data and cv_events.
WindowEvent(data, cv, idx) ==
    [event_timestamp      |-> strftime_seconds(data[idx + 1].timestamp),
     src_index            |-> idx,
     window_readings      |-> WindowReadings(data, data[idx + 1].timestamp),
     window_cv_pothole    |-> WindowCvRecords(cv, "pothole_cv", data[idx + 1].timestamp),
     window_cv_congestion |-> WindowCvRecords(cv, "congestion_cv", data[idx + 1].timestamp)]

InitMergeIdle ==
    /\ csv_rows = <<>>
    /\ cv_events = <<>>
    /\ sensor_data = <<>>
    /\ i = 0
    /\ prev_flag = 0
    /\ metric_events = <<>>
    /\ merge_pc = "idle"

InitMerge ==
    /\ csv_rows \in SeqsUpTo(CsvRow, MaxRows)
    /\ cv_events = <<>>
    /\ sensor_data = <<>>
    /\ i = 0
    /\ prev_flag = 0
    /\ metric_events = <<>>
    /\ merge_pc = "load"

\* Steps 1-2 of merge_metrics: read the CSV and the vision records, then
\* sort both by timestamp.
MergeLoad ==
    /\ merge_pc = "load"
    /\ sensor_data' = SortSensorData([k \in 1..Len(csv_rows) |-> ParseRow(csv_rows[k])])
    /\ i' = 0
    /\ prev_flag' = InitialPrevFlag(sensor_data')
    /\ metric_events' = <<>>
    /\ merge_pc' = "scan"
    /\ cv_events' = SortedByTimestamp(cv_events)
    /\ UNCHANGED <<csv_rows, parseVars, dbVars, jobs, fn, uploadVars>>

\* One iteration of the detection loop on a triggering sample.
MergeScanTrigger ==
    /\ merge_pc = "scan"
    /\ i < Len(sensor_data)
    /\ LET reading == sensor_data[i + 1]
           curr_flag == reading.pothole_flag
       IN  /\ IsTrigger(prev_flag, curr_flag)
           /\ IF WindowReadings(sensor_data, reading.timestamp) = {}
              THEN \* `continue`: prev_flag is not updated
                   UNCHANGED <<metric_events, prev_flag>>
              ELSE /\ metric_events' = Append(metric_events, WindowEvent(sensor_data, cv_events, i))
                   /\ prev_flag' = curr_flag
    /\ i' = i + 1
    /\ UNCHANGED <<csv_rows, cv_events, sensor_data, merge_pc, parseVars, dbVars, jobs, fn, uploadVars>>

\* One iteration of the detection loop on a sample that does not trigger.
MergeScanPass ==
    /\ merge_pc = "scan"
    /\ i < Len(sensor_data)
    /\ LET curr_flag == sensor_data[i + 1].pothole_flag
       IN  /\ ~IsTrigger(prev_flag, curr_flag)
           /\ prev_flag' = curr_flag
    /\ i' = i + 1
    /\ UNCHANGED <<csv_rows, cv_events, sensor_data, metric_events, merge_pc, parseVars, dbVars, jobs, fn, uploadVars>>

\* The loop is exhausted.
MergeScanEnd ==
    /\ merge_pc = "scan"
    /\ i = Len(sensor_data)
    /\ merge_pc' = "save"
    /\ UNCHANGED <<csv_rows, cv_events, sensor_data, i, prev_flag, metric_events, parseVars, dbVars, jobs, fn, uploadVars>>

\* The result is written to FINAL_METRICS_FILE.
MergeSave ==
    /\ merge_pc = "save"
    /\ merge_pc' = "done"
    /\ UNCHANGED <<csv_rows, cv_events, sensor_data, i, prev_flag, metric_events, parseVars, dbVars, jobs, fn, uploadVars>>


NextMerge == MergeLoad \/ MergeScanTrigger \/ MergeScanPass \/ MergeScanEnd \/ MergeSave

\* ---- runs with vision records and with samples at the ends of windows

\* Rows of the CSV and records of the JSON files in such a run
MaxWindowRows == 3
MaxRunCv      == 2

\* Samples at 0 s, 1 s, 6 s and 6.001 s: 6 s is the end of the window opened
\* at 1 s. Frames at 5 s and 6 s (parse_json_timestamp reads whole seconds):
\* the end of the window opened at 0 s and its next second, and the second
\* before the samples at 6 s and 6.001 s.
WindowCsvTimes == {[sec |-> 0, msec |-> 0], [sec |-> 1, msec |-> 0],
                   [sec |-> 6, msec |-> 0], [sec |-> 6, msec |-> 1]}
WindowCsvRow   == [Time : WindowCsvTimes, Pothole : Flags]
RunCvEvent     == [type : {"pothole_cv", "congestion_cv"}, timestamp : {5000, 6000}]

InitMergeWindows ==
    /\ csv_rows \in SeqsUpTo(WindowCsvRow, MaxWindowRows)
    /\ cv_events \in SeqsUpTo(RunCvEvent, MaxRunCv)
    /\ sensor_data = <<>>
    /\ i = 0
    /\ prev_flag = 0
    /\ metric_events = <<>>
    /\ merge_pc = "load"

-----------------------------------------------------------------------------
(*   lat_lon_to_tile_id: utils/tiles.py; coordinates in units of 1e-4 degree  *)

\* KM_TO_DEG_LAT = 0.009 degrees, in units of 1e-4 degree
KM_TO_DEG_LAT == 90

\* Cosines are held as integers, in millionths
CosUnit == 1000000

\* math.cos(math.radians(lat)), to the nearest millionth, at the latitudes
\* the calls below use: the points and the centre latitudes of their cells.
cos_radians(lat) ==
    CASE lat = -650115 -> 422436
      [] lat = -1      -> 1000000
      [] lat = 0       -> 1000000
      [] lat = 1       -> 1000000
      [] lat = -650100 -> 422460
      [] lat = 45      -> 1000000
      [] lat = 135     -> 1000000
      [] lat = 307305  -> 859580
      [] lat = 307333  -> 859555
      [] lat = 307349  -> 859541
      [] lat = 450000  -> 707107
      [] lat = 450045  -> 707051
      [] lat = 599985  -> 500023
      [] lat = 600000  -> 500000
      [] lat = 713738  -> 319393
      [] lat = 713745  -> 319381

\* max(math.cos(math.radians(lat)), 0.01)
CosClamped(lat) == Max2(cos_radians(lat), CosUnit \div 100)

\* a * b = q * d + r with 0 <= r < d, for a, b >= 0, digit by digit of b so
\* that no intermediate value leaves the machine integers
RECURSIVE MulDiv(_, _, _)
MulDiv(a, b, d) ==
    IF b = 0 THEN [q |-> 0, r |-> 0]
    ELSE LET p == MulDiv(a, b \div 10, d)
             t == 10 * p.r + a * (b % 10)
         IN  [q |-> 10 * p.q + t \div d, r |-> t % d]

\* math.floor(a * b / d) and math.ceil(a * b / d), for b >= 0 and d > 0
FloorMulDiv(a, b, d) ==
    IF a >= 0 THEN MulDiv(a, b, d).q
    ELSE LET p == MulDiv(-a, b, d) IN -(p.q + (IF p.r > 0 THEN 1 ELSE 0))

CeilMulDiv(a, b, d) == -FloorMulDiv(-a, b, d)

\* math.ceil(a / d)
CeilDiv(a, d) == -((-a) \div d)

\* str(n) of an integer, as a sequence of characters
DigitChars == <<"0", "1", "2", "3", "4", "5", "6", "7", "8", "9">>

RECURSIVE NatToChars(_)
NatToChars(n) ==
    IF n < 10 THEN <<DigitChars[n + 1]>>
    ELSE NatToChars(n \div 10) \o <<DigitChars[(n % 10) + 1]>>

IntToChars(n) == IF n < 0 THEN <<"-">> \o NatToChars(-n) ELSE NatToChars(n)

\* f"T_{lat_idx}_{lon_idx}"
FormatTileId(lat_idx, lon_idx) ==
    <<"T", "_">> \o IntToChars(lat_idx) \o <<"_">> \o IntToChars(lon_idx)

\* lon / km_to_deg_lon, floored or ceiled, with km_to_deg_lon =
\* KM_TO_DEG_LAT / cos
LonIndexFloor(lon, cos) == FloorMulDiv(lon, cos, KM_TO_DEG_LAT * CosUnit)
LonIndexCeil(lon, cos)  == CeilMulDiv(lon, cos, KM_TO_DEG_LAT * CosUnit)

lat_lon_to_tile_id(lat, lon) ==
    LET tile_lat_idx == lat \div KM_TO_DEG_LAT
        tile_lon_idx == LonIndexFloor(lon, CosClamped(lat))
    IN  FormatTileId(tile_lat_idx, tile_lon_idx)

\* Parsing identifiers and cell bounds, of the same file

\* tile_id.split('_')
RECURSIVE Split(_)
Split(s) ==
    IF \A k \in 1..Len(s) : s[k] # "_" THEN <<s>>
    ELSE LET n == CHOOSE k \in 1..Len(s) : s[k] = "_" /\ \A m \in 1..(k - 1) : s[m] # "_"
         IN  <<SubSeq(s, 1, n - 1)>> \o Split(SubSeq(s, n + 1, Len(s)))

\* Characters int() strips from both ends of its argument
Whitespace == {" "}

RECURSIVE Strip(_)
Strip(s) ==
    IF s = <<>> THEN s
    ELSE IF s[1] \in Whitespace THEN Strip(Tail(s))
    ELSE IF s[Len(s)] \in Whitespace THEN Strip(SubSeq(s, 1, Len(s) - 1))
    ELSE s

IsDigit(ch) == \E d \in 1..10 : DigitChars[d] = ch

RECURSIVE CharsToNat(_)
CharsToNat(s) ==
    IF s = <<>> THEN 0
    ELSE 10 * CharsToNat(SubSeq(s, 1, Len(s) - 1))
            + ((CHOOSE d \in 1..10 : DigitChars[d] = s[Len(s)]) - 1)

ValueError == [ok |-> FALSE, error |-> "ValueError"]

\* int(s) of a string: surrounding whitespace is stripped, one sign is
\* allowed, and at least one digit must follow.
python_int(s) ==
    LET t == Strip(s)
        signed == t # <<>> /\ t[1] \in {"-", "+"}
        digits == IF signed THEN Tail(t) ELSE t
    IN  IF digits = <<>> \/ \E k \in 1..Len(digits) : ~IsDigit(digits[k])
        THEN ValueError
        ELSE [ok |-> TRUE,
              value |-> IF signed /\ t[1] = "-" THEN -CharsToNat(digits)
                        ELSE CharsToNat(digits)]

parse_tile_id(tile_id) ==
    LET parts == Split(tile_id)
    IN  IF Len(parts) # 3 \/ parts[1] # <<"T">> THEN ValueError
        ELSE LET a == python_int(parts[2])
                 b == python_int(parts[3])
             IN  IF ~a.ok \/ ~b.ok THEN ValueError
                 ELSE [ok |-> TRUE, lat_idx |-> a.value, lon_idx |-> b.value]

\* A longitude n * km_to_deg_lon is held as the pair (num, cos): its value
\* is num * CosUnit / cos, with num = n * KM_TO_DEG_LAT.
LonAt(num, cos) == [num |-> num, cos |-> cos]

\* x <= lon and lon <= x, for a longitude x held as such a pair
LonLeq(x, lon)  == x.num <= FloorMulDiv(lon, x.cos, CosUnit)
LonGeq(x, lon)  == CeilMulDiv(lon, x.cos, CosUnit) <= x.num

tile_id_to_center(tile_id) ==
    LET p == parse_tile_id(tile_id)
    IN  IF ~p.ok THEN ValueError
        ELSE LET center_lat == p.lat_idx * KM_TO_DEG_LAT + KM_TO_DEG_LAT \div 2
             IN  [ok |-> TRUE,
                  center_lat |-> center_lat,
                  center_lon |-> LonAt(p.lon_idx * KM_TO_DEG_LAT + KM_TO_DEG_LAT \div 2,
                                       CosClamped(center_lat))]

get_tile_bounds(tile_id) ==
    LET p == parse_tile_id(tile_id)
    IN  IF ~p.ok THEN ValueError
        ELSE LET min_lat == p.lat_idx * KM_TO_DEG_LAT
                 max_lat == (p.lat_idx + 1) * KM_TO_DEG_LAT
                 center_lat == (min_lat + max_lat) \div 2
                 cos == CosClamped(center_lat)
             IN  [ok |-> TRUE,
                  min_lat |-> min_lat,
                  max_lat |-> max_lat,
                  min_lon |-> LonAt(p.lon_idx * KM_TO_DEG_LAT, cos),
                  max_lon |-> LonAt((p.lon_idx + 1) * KM_TO_DEG_LAT, cos),
                  center_lat |-> center_lat]

-----------------------------------------------------------------------------
(*        parse_model_outputs_to_events: services/video_pipeline.py        *)

FRAMES_PER_SECOND == 4

\* Frames of one video, and location samples of its CSV
MaxFrames == 3
MaxGps    == 2

\* Per-frame output of the damage model: the counts the function reads.
DamageResult == {[potholes |-> 0, road_cracks |-> 0],
                 [potholes |-> 1, road_cracks |-> 0],
                 [potholes |-> 0, road_cracks |-> 1],
                 [potholes |-> 2, road_cracks |-> 1]}

\* Per-frame output of the congestion model. coverage_pct is
\* total_vehicle_coverage in hundredths (0.15 is 15).
CongestionResult == {[vehicle_count |-> 0, coverage_pct |-> 0],
                     [vehicle_count |-> 3, coverage_pct |-> 0],
                     [vehicle_count |-> 2, coverage_pct |-> 15]}

\* Location samples, in units of 0.0001 degree. parse_csv_for_gps keeps a
\* sample only when both coordinates are non-zero; gyro_magnitude is a
\* square root, never negative.
GpsPoint == {[lat |-> -1, lon |-> -1, velocity |-> 0, gyro_magnitude |-> 0],
             [lat |-> 1, lon |-> 1, velocity |-> 3, gyro_magnitude |-> 2]}

\* Base timestamp of the video, in milliseconds
VideoTimestamps == {0, 60000}

\* position, idx_low, idx_high and t of interpolate_gps_for_frame for n
\* samples, in exact arithmetic: position and t are held as numerators over
\* den = max(total_frames - 1, 1).
GpsPosition(frame_idx, total_frames, n) ==
    LET den     == Max2(total_frames - 1, 1)
        scaled  == frame_idx * (n - 1)                \* position * den
        idx_low == scaled \div den                    \* int(position)
    IN  [den      |-> den,
         idx_low  |-> idx_low,
         idx_high |-> IF idx_low + 1 <= n - 1 THEN idx_low + 1 ELSE n - 1,
         r        |-> scaled - idx_low * den]         \* t * den

\* low * (1 - t) + high * t, as a numerator over den
Lerp(low, high, r, den) == low * (den - r) + high * r

\* interpolate_gps_for_frame without lines 167-174: no sample, no position
InterpolateWithoutDefault(frame_idx, total_frames, gps) ==
    [lat |-> 0, lon |-> 0, velocity |-> 0, gyro_magnitude |-> 0, den |-> 1]

\* interpolate_gps_for_frame. Every field of the result is a numerator over
\* the common denominator den. Python's lists count from 0, sequences from 1.
interpolate_gps_for_frame(frame_idx, total_frames, gps) ==
    IF gps = <<>>
    THEN [lat |-> 307333, lon |-> 767794, velocity |-> 0, gyro_magnitude |-> 0,
          den |-> 1]
    ELSE LET at   == GpsPosition(frame_idx, total_frames, Len(gps))
             low  == gps[at.idx_low + 1]
             high == gps[at.idx_high + 1]
         IN  IF at.idx_low = at.idx_high
             THEN [lat            |-> low.lat * at.den,
                   lon            |-> low.lon * at.den,
                   velocity       |-> low.velocity * at.den,
                   gyro_magnitude |-> low.gyro_magnitude * at.den,
                   den            |-> at.den]
             ELSE [lat            |-> Lerp(low.lat, high.lat, at.r, at.den),
                   lon            |-> Lerp(low.lon, high.lon, at.r, at.den),
                   velocity       |-> Lerp(low.velocity, high.velocity, at.r, at.den),
                   gyro_magnitude |-> Lerp(low.gyro_magnitude, high.gyro_magnitude,
                                           at.r, at.den),
                   den            |-> at.den]

\* lat_lon_to_tile_id(gps['lat'], gps['lon']) of a position held as
\* numerators over den. floor(floor(x / den) / k) is floor(x / (den * k)), and
\* at the latitudes of GpsPoint the cosine is 1 to the millionth, so the
\* indices of the whole part of the position are those of the position.
TileIdOfPosition(pos) ==
    IF pos.den = 1
    THEN lat_lon_to_tile_id(pos.lat, pos.lon)
    ELSE lat_lon_to_tile_id(pos.lat \div pos.den, pos.lon \div pos.den)

\* datetime.fromtimestamp(video_timestamp.timestamp() + frame_idx / FPS), in ms
FrameDetectedAt(video_timestamp, frame_idx) ==
    video_timestamp + (frame_idx * 1000) \div Max2(FRAMES_PER_SECOND, 1)

\* The first loop's body without the test of lines 385-386: an event for
\* every frame with damage, wherever it is.
DamageEventUnlocated(frame_idx, result, total_frames, gps, video_timestamp) ==
    IF result.potholes > 0 \/ result.road_cracks > 0
    THEN LET pos == interpolate_gps_for_frame(frame_idx, total_frames, gps)
         IN  <<[event_type  |-> IF result.potholes > 0 THEN "pothole" ELSE "crack",
                detected_at |-> FrameDetectedAt(video_timestamp, frame_idx),
                frame_idx   |-> frame_idx,
                lat         |-> pos.lat,
                lon         |-> pos.lon,
                den         |-> pos.den,
                tile_id     |-> TileIdOfPosition(pos)]>>
    ELSE <<>>

\* The body of the first loop for one frame: no event or one damage event.
DamageEventOfFrame(frame_idx, result, total_frames, gps, video_timestamp) ==
    IF result.potholes > 0 \/ result.road_cracks > 0
    THEN LET pos == interpolate_gps_for_frame(frame_idx, total_frames, gps)
         IN  IF pos.lat = 0 /\ pos.lon = 0
             THEN <<>>
             ELSE <<[event_type  |-> IF result.potholes > 0 THEN "pothole" ELSE "crack",
                     detected_at |-> FrameDetectedAt(video_timestamp, frame_idx),
                     frame_idx   |-> frame_idx,
                     lat         |-> pos.lat,
                     lon         |-> pos.lon,
                     den         |-> pos.den,
                     tile_id     |-> TileIdOfPosition(pos)]>>
    ELSE <<>>

\* The body of the second loop for one frame: no event or one congestion event.
CongestionEventOfFrame(frame_idx, result, total_frames, gps, video_timestamp) ==
    IF result.vehicle_count >= 3 \/ result.coverage_pct >= 15
    THEN LET pos == interpolate_gps_for_frame(frame_idx, total_frames, gps)
         IN  IF pos.lat = 0 /\ pos.lon = 0
             THEN <<>>
             ELSE <<[event_type  |-> "congestion",
                     detected_at |-> FrameDetectedAt(video_timestamp, frame_idx),
                     frame_idx   |-> frame_idx,
                     lat         |-> pos.lat,
                     lon         |-> pos.lon,
                     den         |-> pos.den,
                     tile_id     |-> TileIdOfPosition(pos)]>>
    ELSE <<>>

\* for frame_idx, result in enumerate(pothole_results), frames 0..n-1
RECURSIVE DamageLoop(_, _, _, _, _)
DamageLoop(n, pot, total_frames, gps, video_timestamp) ==
    IF n = 0 THEN <<>>
    ELSE DamageLoop(n - 1, pot, total_frames, gps, video_timestamp)
         \o DamageEventOfFrame(n - 1, pot[n], total_frames, gps, video_timestamp)

\* for frame_idx, result in enumerate(congestion_results), frames 0..n-1
RECURSIVE CongestionLoop(_, _, _, _, _)
CongestionLoop(n, cong, total_frames, gps, video_timestamp) ==
    IF n = 0 THEN <<>>
    ELSE CongestionLoop(n - 1, cong, total_frames, gps, video_timestamp)
         \o CongestionEventOfFrame(n - 1, cong[n], total_frames, gps, video_timestamp)

\* The returned list: every damage event, then every congestion event.
\* event_id is str(uuid.uuid4()), fresh for each event; the position in the
\* list stands for it.
parse_model_outputs_to_events(cong, pot, gps, video_timestamp) ==
    LET total_frames == Max2(Len(cong), Len(pot))
        listed == DamageLoop(Len(pot), pot, total_frames, gps, video_timestamp)
                  \o CongestionLoop(Len(cong), cong, total_frames, gps, video_timestamp)
    IN  [k \in 1..Len(listed) |->
            [event_id    |-> k,
             event_type  |-> listed[k].event_type,
             detected_at |-> listed[k].detected_at,
             frame_idx   |-> listed[k].frame_idx,
             lat         |-> listed[k].lat,
             lon         |-> listed[k].lon,
             den         |-> listed[k].den,
             tile_id     |-> listed[k].tile_id]]

InitParseIdle ==
    /\ pothole_results = <<>>
    /\ congestion_results = <<>>
    /\ gps_data = <<>>
    /\ parsed_events = <<>>
    /\ parse_pc = "idle"

\* The callers run both models on every extracted frame, so the two lists
\* have one entry per frame; a video without frames never reaches the call.
InitParse ==
    /\ \E n \in 1..MaxFrames :
          /\ pothole_results \in [1..n -> DamageResult]
          /\ congestion_results \in [1..n -> CongestionResult]
    /\ gps_data \in SeqsUpTo(GpsPoint, MaxGps)
    /\ parsed_events = <<>>
    /\ parse_pc = "call"

\* One call of parse_model_outputs_to_events.
ParseModelOutputs ==
    /\ parse_pc = "call"
    /\ \E video_timestamp \in VideoTimestamps :
          parsed_events' = parse_model_outputs_to_events(
                               congestion_results, pothole_results, gps_data, video_timestamp)
    /\ parse_pc' = "done"
    /\ UNCHANGED <<pothole_results, congestion_results, gps_data, mergeVars, dbVars, jobs, fn, uploadVars>>

NextParse == ParseModelOutputs

-----------------------------------------------------------------------------
(*                 Event service: services/event_service.py                *)

TILE_LAST_N_EVENTS == 20

\* Events of one batch, and ticks of the database clock
MaxBatch == 2
MaxClock == 1

Tiles == {"T_1_1", "T_1_2"}

\* Rows already in table events when the model starts: the tile T_1_1 has
\* h of them, stored by earlier calls. Two consecutive rows share a
\* detected_at, as the damage event and the congestion event of one frame do.
HistorySizes == {0, TILE_LAST_N_EVENTS - 1, TILE_LAST_N_EVENTS + 5}

HistoryEvent(k) ==
    [event_id    |-> k,
     tile_id     |-> "T_1_1",
     detected_at |-> (k + 1) \div 2,
     event_type  |-> IF k % 3 = 0 THEN "pothole"
                     ELSE IF k % 3 = 1 THEN "congestion" ELSE "crack",
     severity    |-> (k * 13) % 101]

History(h) == {HistoryEvent(k) : k \in 1..h}

\* Events a caller may hand to the store. Columns kept: event_id, tile_id,
\* detected_at, event_type, severity (0..100). Two candidates share
\* event_id 101 and differ in every other column; one is of a kind the
\* aggregate has no counter for.
CandidateEvents ==
    {[event_id |-> 101, tile_id |-> "T_1_1", detected_at |-> 14,
      event_type |-> "pothole", severity |-> 90],
     [event_id |-> 102, tile_id |-> "T_1_1", detected_at |-> 14,
      event_type |-> "congestion", severity |-> 40],
     [event_id |-> 103, tile_id |-> "T_1_1", detected_at |-> 0,
      event_type |-> "crack", severity |-> 100],
     [event_id |-> 104, tile_id |-> "T_1_2", detected_at |-> 3,
      event_type |-> "debris", severity |-> 55],
     [event_id |-> 101, tile_id |-> "T_1_2", detected_at |-> 3,
      event_type |-> "crack", severity |-> 10]}

Batches == UNION {[1..n -> CandidateEvents] : n \in 1..MaxBatch}

\* A plausible slip: ON CONFLICT (event_id) DO UPDATE, the stored row replaced.
RECURSIVE InsertOrReplace(_, _)
InsertOrReplace(table, batch) ==
    IF batch = <<>> THEN table
    ELSE LET before == InsertOrReplace(table, SubSeq(batch, 1, Len(batch) - 1))
             event  == batch[Len(batch)]
         IN  {r \in before : r.event_id # event.event_id} \cup {event}

\* The INSERT loop: INSERT ... ON CONFLICT (event_id) DO NOTHING, one
\* statement per event of the batch, in order, inside one transaction.
RECURSIVE InsertEvents(_, _)
InsertEvents(table, batch) ==
    IF batch = <<>> THEN table
    ELSE LET before == InsertEvents(table, SubSeq(batch, 1, Len(batch) - 1))
             event  == batch[Len(batch)]
         IN  IF \E r \in before : r.event_id = event.event_id
             THEN before
             ELSE before \cup {event}

\* A plausible slip: only the tiles of rows that were really inserted.
TilesOfInserted(table, batch) ==
    {e.tile_id : e \in InsertEvents(table, batch) \ table}

\* affected_tiles: event['tile_id'] of every event of the batch.
AffectedTiles(table, batch) == {batch[k].tile_id : k \in 1..Len(batch)}

\* A plausible slip: the WHERE tile_id = :tile_id of the CTE left out.
EventsOfAnyTile(table, tile_id) == table

\* FROM events WHERE tile_id = :tile_id
TileEvents(table, tile_id) == {e \in table : e.tile_id = tile_id}

\* A plausible slip: ORDER BY detected_at ASC, the oldest rows kept.
LastNAscending(table, tile_id, limit) ==
    LET E == TileEvents(table, tile_id)
    IN  IF Cardinality(E) <= limit THEN {E}
        ELSE LET cut == CHOOSE c \in {e.detected_at : e \in E} :
                           /\ Cardinality({f \in E : f.detected_at < c}) < limit
                           /\ Cardinality({f \in E : f.detected_at <= c}) >= limit
                 below == {f \in E : f.detected_at < cut}
                 tied  == {f \in E : f.detected_at = cut}
             IN  {below \cup K : K \in {S \in SUBSET tied :
                                    Cardinality(S) = limit - Cardinality(below)}}

\* The CTE last_n: WHERE tile_id = :tile_id ORDER BY detected_at DESC LIMIT
\* :limit. SQL leaves the order of rows with equal detected_at open, so when
\* the limit cuts through such rows any of them may be returned: the
\* operator yields every row set the query may produce.
LastN(table, tile_id, limit) ==
    LET E == TileEvents(table, tile_id)
    IN  IF Cardinality(E) <= limit THEN {E}
        ELSE LET cut == CHOOSE c \in {e.detected_at : e \in E} :
                           /\ Cardinality({f \in E : f.detected_at > c}) < limit
                           /\ Cardinality({f \in E : f.detected_at >= c}) >= limit
                 above == {f \in E : f.detected_at > cut}
                 tied  == {f \in E : f.detected_at = cut}
             IN  {above \cup K : K \in {S \in SUBSET tied :
                                    Cardinality(S) = limit - Cardinality(above)}}

RECURSIVE SumSeverity(_)
SumSeverity(W) ==
    IF W = {} THEN 0
    ELSE LET e == CHOOSE x \in W : TRUE
         IN  e.severity + SumSeverity(W \ {e})

\* AVG(severity) as stored in a NUMERIC(5,2) column: hundredths, rounded
\* half up.
AvgHundredths(sum, n) == (200 * sum + n) \div (2 * n)

\* The aggregate SELECT over last_n. Columns kept: the counts, the severity
\* average and maximum, last_event_at. (The other columns are AVG or MAX
\* over the same rows, filtered by event_type.)
Stats(W) ==
    [total_events     |-> Cardinality(W),
     pothole_count    |-> Cardinality({e \in W : e.event_type = "pothole"}),
     congestion_count |-> Cardinality({e \in W : e.event_type = "congestion"}),
     crack_count      |-> Cardinality({e \in W : e.event_type = "crack"}),
     avg_severity     |-> IF W = {} THEN 0
                          ELSE AvgHundredths(SumSeverity(W), Cardinality(W)),
     max_severity     |-> IF W = {} THEN 0 ELSE SetMax({e.severity : e \in W}),
     last_event_at    |-> IF W = {} THEN -1 ELSE SetMax({e.detected_at : e \in W})]

NoRow == [window_type |-> "none"]

\* The tile ids of Tiles, character by character
TileIdChars(tile_id) ==
    IF tile_id = "T_1_1" THEN <<"T", "_", "1", "_", "1">>
    ELSE <<"T", "_", "1", "_", "2">>

\* A plausible slip: the centre columns filled with the corner of the tile.
CornerRow(tile_id, stats, clock) ==
    [window_type      |-> "last_20",
     center_lat       |-> get_tile_bounds(TileIdChars(tile_id)).min_lat,
     center_lon       |-> get_tile_bounds(TileIdChars(tile_id)).min_lon,
     total_events     |-> stats.total_events,
     pothole_count    |-> stats.pothole_count,
     congestion_count |-> stats.congestion_count,
     crack_count      |-> stats.crack_count,
     avg_severity     |-> stats.avg_severity,
     max_severity     |-> stats.max_severity,
     last_event_at    |-> stats.last_event_at,
     last_updated     |-> clock]

\* The row the INSERT of the upsert proposes under key (tile_id, 'last_20'),
\* with center_lat, center_lon = tile_id_to_center(tile_id) of line 136.
AggregateRow(tile_id, stats, clock) ==
    [window_type      |-> "last_20",
     center_lat       |-> tile_id_to_center(TileIdChars(tile_id)).center_lat,
     center_lon       |-> tile_id_to_center(TileIdChars(tile_id)).center_lon,
     total_events     |-> stats.total_events,
     pothole_count    |-> stats.pothole_count,
     congestion_count |-> stats.congestion_count,
     crack_count      |-> stats.crack_count,
     avg_severity     |-> stats.avg_severity,
     max_severity     |-> stats.max_severity,
     last_event_at    |-> stats.last_event_at,
     last_updated     |-> clock]

\* A plausible slip: the early return of line 132 left out.
UpsertAlways(tile_id, old_row, W, clock) == AggregateRow(tile_id, Stats(W), clock)

\* A plausible slip: DO UPDATE SET total_events = tile_aggregates.total_events
\* + EXCLUDED.total_events, the stored count patched instead of replaced.
UpsertAccumulating(tile_id, old_row, W, clock) ==
    IF Stats(W).total_events = 0 THEN old_row
    ELSE IF old_row = NoRow THEN AggregateRow(tile_id, Stats(W), clock)
    ELSE [AggregateRow(tile_id, Stats(W), clock) EXCEPT
              !.total_events = old_row.total_events + Stats(W).total_events]

\* update_tile_aggregate once last_n returned the rows W: nothing is written
\* when total_events = 0, else the row is inserted, or on conflict every
\* column of DO UPDATE SET is replaced; center_lat and center_lon are not
\* among them and keep the stored value.
Recomputed(tile_id, old_row, W, clock) ==
    IF Stats(W).total_events = 0
    THEN old_row
    ELSE IF old_row = NoRow
    THEN AggregateRow(tile_id, Stats(W), clock)
    ELSE [AggregateRow(tile_id, Stats(W), clock) EXCEPT
              !.center_lat = old_row.center_lat,
              !.center_lon = old_row.center_lon]

\* One row set of last_n for each tile of `tiles`
WindowChoices(table, tiles) ==
    {w \in [tiles -> UNION {LastN(table, t, TILE_LAST_N_EVENTS) : t \in tiles}] :
        \A t \in tiles : w[t] \in LastN(table, t, TILE_LAST_N_EVENTS)}

EventIds(W) == {e.event_id : e \in W}

\* `call` is the service call in progress or just returned:
\*   [pc |-> "none"]
\*   [pc |-> "called", op, batch]            store_events_and_update_tiles(batch)
\*   [pc |-> "called", op, tile_id, again]   update_tile_aggregate(tile_id);
\*        again: it directly follows a returned update_tile_aggregate of
\*        the same tile
\*   [pc |-> "returned", op, tiles, last_n, inserted, again]
\*        tiles: the tiles update_tile_aggregate ran for; last_n: the
\*        event_ids the CTE returned for each; inserted: rows added
NoCall == [pc |-> "none"]

InitDB ==
    /\ \E h \in HistorySizes :
          /\ events = History(h)
          /\ \E W \in LastN(History(h), "T_1_1", TILE_LAST_N_EVENTS) :
                tile_aggregates =
                    [t \in Tiles |-> IF t = "T_1_1" THEN Recomputed(t, NoRow, W, 0) ELSE NoRow]
    /\ now = 0
    /\ call = NoCall

InitDBIdle ==
    /\ events = {}
    /\ tile_aggregates = [t \in Tiles |-> NoRow]
    /\ now = 0
    /\ call = NoCall

\* A caller invokes store_events_and_update_tiles(batch).
CallStore ==
    /\ call.pc # "called"
    /\ \E batch \in Batches :
          call' = [pc |-> "called", op |-> "store_events_and_update_tiles", batch |-> batch]
    /\ UNCHANGED <<events, tile_aggregates, now, mergeVars, parseVars, jobs, fn, uploadVars>>

\* A caller invokes update_tile_aggregate(tile_id).
CallUpdate ==
    /\ call.pc # "called"
    /\ \E tile_id \in Tiles :
          call' = [pc      |-> "called",
                   op      |-> "update_tile_aggregate",
                   tile_id |-> tile_id,
                   again   |-> /\ call.pc = "returned"
                               /\ call.op = "update_tile_aggregate"
                               /\ call.tiles = {tile_id}]
    /\ UNCHANGED <<events, tile_aggregates, now, mergeVars, parseVars, jobs, fn, uploadVars>>

\* store_events_and_update_tiles(batch), the whole call: the inserts, the
\* commit, then update_tile_aggregate for each affected tile.
StoreEventsAndUpdateTiles ==
    /\ call.pc = "called"
    /\ call.op = "store_events_and_update_tiles"
    /\ LET table    == InsertEvents(events, call.batch)
           affected == AffectedTiles(events, call.batch)
       IN  /\ events' = table
           /\ \E w \in WindowChoices(table, affected) :
                 /\ tile_aggregates' =
                       [t \in Tiles |-> IF t \in affected
                                        THEN Recomputed(t, tile_aggregates[t], w[t], now)
                                        ELSE tile_aggregates[t]]
                 /\ call' = [pc       |-> "returned",
                             op       |-> "store_events_and_update_tiles",
                             tiles    |-> affected,
                             last_n   |-> [t \in affected |-> EventIds(w[t])],
                             inserted |-> Cardinality(table) - Cardinality(events),
                             again    |-> FALSE]
    /\ UNCHANGED <<now, mergeVars, parseVars, jobs, fn, uploadVars>>

\* update_tile_aggregate(tile_id), the whole call.
UpdateTileAggregate ==
    /\ call.pc = "called"
    /\ call.op = "update_tile_aggregate"
    /\ \E W \in LastN(events, call.tile_id, TILE_LAST_N_EVENTS) :
          /\ tile_aggregates' =
                [tile_aggregates EXCEPT ![call.tile_id] = Recomputed(call.tile_id, @, W, now)]
          /\ call' = [pc       |-> "returned",
                      op       |-> "update_tile_aggregate",
                      tiles    |-> {call.tile_id},
                      last_n   |-> [t \in {call.tile_id} |-> EventIds(W)],
                      inserted |-> 0,
                      again    |-> call.again]
    /\ UNCHANGED <<events, now, mergeVars, parseVars, jobs, fn, uploadVars>>

\* Time passes: NOW() of a later transaction is later.
Tick ==
    /\ now < MaxClock
    /\ now' = now + 1
    /\ UNCHANGED <<events, tile_aggregates, call, mergeVars, parseVars, jobs, fn, uploadVars>>

NextDB == CallStore \/ CallUpdate \/ StoreEventsAndUpdateTiles \/ UpdateTileAggregate \/ Tick

-----------------------------------------------------------------------------
(*       Event service, concurrent jobs: each await is a step boundary     *)

\* Jobs running at once, and events of the batch of one such job
MaxJobs      == 2
MaxConcBatch == 1

Jobs == 1..MaxJobs

ConcBatches == UNION {[1..n -> CandidateEvents] : n \in 1..MaxConcBatch}

\* conflict records whether an INSERT of the job met a stored row with its
\* event_id and other values.
IdleJob == [pc |-> "idle", todo |-> {}, tile |-> "", last_n |-> {}, conflict |-> FALSE]

InitJobsIdle == jobs = [j \in Jobs |-> IdleJob]

\* Jobs are numbered in the order in which they are started.
Started(j) == \A k \in 1..(j - 1) : jobs[k].pc # "idle"

\* An insert of the batch meets a stored row that has its event_id and
\* differs from it.
MeetsConflict(table, batch) ==
    \E k \in 1..Len(batch) : \E r \in table :
        r.event_id = batch[k].event_id /\ r # batch[k]

\* A job calls store_events_and_update_tiles(batch) on its own session: the
\* INSERT loop and the commit of line 61. The rows of a transaction become
\* visible to the other sessions at its commit, and an insert that meets an
\* uncommitted row of the same event_id waits for that commit, so the
\* statements take effect together at the commit.
JobInsertCommit(j) ==
    /\ jobs[j].pc = "idle"
    /\ Started(j)
    /\ \E batch \in ConcBatches :
          /\ events' = InsertEvents(events, batch)
          /\ jobs' = [jobs EXCEPT ![j].pc = "select",
                                  ![j].todo = AffectedTiles(events, batch),
                                  ![j].conflict = MeetsConflict(events, batch)]
    /\ UNCHANGED <<tile_aggregates, now, call, mergeVars, parseVars, fn, uploadVars>>

\* update_tile_aggregate, first await: the SELECT over last_n for the next
\* affected tile (a set is iterated in no fixed order). With no rows the
\* function returns at once.
JobSelect(j) ==
    /\ jobs[j].pc = "select"
    /\ \E t \in jobs[j].todo :
       \E W \in LastN(events, t, TILE_LAST_N_EVENTS) :
          IF Recomputed(t, NoRow, W, now) = NoRow
          THEN jobs' = [jobs EXCEPT ![j].todo = @ \ {t},
                                    ![j].pc = IF jobs[j].todo = {t} THEN "done" ELSE "select"]
          ELSE jobs' = [jobs EXCEPT ![j].pc = "upsert", ![j].tile = t, ![j].last_n = W]
    /\ UNCHANGED <<dbVars, mergeVars, parseVars, fn, uploadVars>>

\* update_tile_aggregate, second and third await: the upsert and its commit,
\* with the statistics read by the SELECT.
JobUpsert(j) ==
    /\ jobs[j].pc = "upsert"
    /\ tile_aggregates' =
          [tile_aggregates EXCEPT ![jobs[j].tile] = Recomputed(jobs[j].tile, @, jobs[j].last_n, now)]
    /\ jobs' = [jobs EXCEPT ![j].todo = @ \ {jobs[j].tile},
                            ![j].tile = "",
                            ![j].last_n = {},
                            ![j].pc = IF jobs[j].todo = {jobs[j].tile} THEN "done" ELSE "select"]
    /\ UNCHANGED <<events, now, call, mergeVars, parseVars, fn, uploadVars>>

\* The job ends with an exception, before its commit of line 61 or at one
\* of the awaits after it; what it has not committed is discarded.
JobAbort(j) ==
    /\ jobs[j].pc \in {"idle", "select", "upsert"}
    /\ Started(j)
    /\ jobs' = [jobs EXCEPT ![j] = [IdleJob EXCEPT !.pc = "failed"]]
    /\ UNCHANGED <<dbVars, mergeVars, parseVars, fn, uploadVars>>

JobInsertStep == \E j \in Jobs : JobInsertCommit(j)
JobSelectStep == \E j \in Jobs : JobSelect(j)
JobUpsertStep == \E j \in Jobs : JobUpsert(j)
JobAbortStep  == \E j \in Jobs : JobAbort(j)

NextConc == JobInsertStep \/ JobSelectStep \/ JobUpsertStep \/ JobAbortStep

-----------------------------------------------------------------------------
(* Upload processing: routers/uploads_s3.py, services/video_pipeline.py *)

\* Requests POST /{upload_id}/process made for the upload, and frames
\* extract_frames yields for its video
MaxTriggers    == 2
MaxVideoFrames == 2

Triggers == 1..MaxTriggers

\* The uploaded video: extract_frames yields `frames` frames, and
\* parse_model_outputs_to_events builds an Event for the frames
\* 1..qualifying of them; has_csv: s3_key_csv is set.
Videos == {v \in [frames : 0..MaxVideoFrames, qualifying : 0..MaxVideoFrames,
                  has_csv : BOOLEAN] : v.qualifying <= v.frames}

NoTrigger == [pc |-> "idle", response |-> "none"]
NoTask    == [pc |-> "none"]

InitUploadIdle ==
    /\ processing_status = "pending"
    /\ triggers = [r \in Triggers |-> NoTrigger]
    /\ tasks = [r \in Triggers |-> NoTask]
    /\ upload_events = {}
    /\ video = [frames |-> 0, qualifying |-> 0, has_csv |-> FALSE]
    /\ s3_video = FALSE

\* The upload as the client leaves it: the row of raw_uploads with status
\* 'pending' and the video in the bucket.
InitUpload ==
    /\ processing_status = "pending"
    /\ triggers = [r \in Triggers |-> NoTrigger]
    /\ tasks = [r \in Triggers |-> NoTask]
    /\ upload_events = {}
    /\ video \in Videos
    /\ s3_video = TRUE

\* Requests are numbered in the order in which they arrive.
Arrived(r) == \A k \in 1..(r - 1) : triggers[k].pc # "idle"

\* trigger_processing after its SELECT returned `status`: the request
\* answers at once when the upload is being processed or is completed.
AfterSelect(status) ==
    IF status = "processing" THEN "already_processing"
    ELSE IF status = "completed" THEN "already_completed"
    ELSE "selected"

\* trigger_processing, up to its first await: the SELECT of the upload row.
TriggerSelect(r) ==
    /\ triggers[r].pc = "idle"
    /\ Arrived(r)
    /\ triggers' = [triggers EXCEPT ![r] =
                       IF AfterSelect(processing_status) = "selected"
                       THEN [pc |-> "selected", response |-> "none"]
                       ELSE [pc |-> "returned",
                             response |-> AfterSelect(processing_status)]]
    /\ UNCHANGED <<processing_status, tasks, upload_events, video, s3_video>>
    /\ UNCHANGED <<mergeVars, parseVars, dbVars, jobs, fn>>

\* trigger_processing, the rest: UPDATE ... SET processing_status =
\* 'processing', the commit, then add_task, which does not yield.
TriggerUpdate(r) ==
    /\ triggers[r].pc = "selected"
    /\ processing_status' = "processing"
    /\ tasks' = [tasks EXCEPT ![r] = [pc |-> "queued"]]
    /\ triggers' = [triggers EXCEPT ![r] =
                       [pc |-> "returned", response |-> "processing_started"]]
    /\ UNCHANGED <<upload_events, video, s3_video>>
    /\ UNCHANGED <<mergeVars, parseVars, dbVars, jobs, fn>>

\* process_video_from_s3 from the downloads to parse_model_outputs_to_events:
\* a download or a model raises (the download always does once the video
\* object is gone), or no frame is extracted and the function returns [],
\* or the events are built.
TaskProcess(r) ==
    /\ tasks[r].pc = "queued"
    /\ \/ tasks' = [tasks EXCEPT ![r].pc = "except"]
       \/ /\ s3_video
          /\ tasks' = [tasks EXCEPT ![r].pc =
                          IF video.frames = 0 THEN "done" ELSE "parsed"]
    /\ UNCHANGED <<processing_status, triggers, upload_events, video, s3_video>>
    /\ UNCHANGED <<mergeVars, parseVars, dbVars, jobs, fn>>

\* The rows one attempt inserts: event_id is a fresh uuid4 for each, here
\* the pair of the attempt and the frame.
AttemptEvents(r) ==
    {[event_id |-> <<r, f>>, frame |-> f] : f \in 1..video.qualifying}

\* `if events: await store_events_and_update_tiles(events, db_session)`: with
\* no event the call is skipped; else the inserts raise before the commit,
\* or they are committed and then the aggregate updates succeed or raise.
TaskStore(r) ==
    /\ tasks[r].pc = "parsed"
    /\ IF video.qualifying = 0
       THEN /\ tasks' = [tasks EXCEPT ![r].pc = "marking"]
            /\ UNCHANGED upload_events
       ELSE \/ /\ tasks' = [tasks EXCEPT ![r].pc = "except"]
               /\ UNCHANGED upload_events
            \/ /\ upload_events' = upload_events \cup AttemptEvents(r)
               /\ \E next \in {"marking", "except"} :
                     tasks' = [tasks EXCEPT ![r].pc = next]
    /\ UNCHANGED <<processing_status, triggers, video, s3_video>>
    /\ UNCHANGED <<mergeVars, parseVars, dbVars, jobs, fn>>

\* mark_upload_processed: the status becomes 'completed', or the call raises.
TaskMarkProcessed(r) ==
    /\ tasks[r].pc = "marking"
    /\ \/ /\ processing_status' = "completed"
          /\ tasks' = [tasks EXCEPT ![r].pc = "deleting"]
       \/ /\ tasks' = [tasks EXCEPT ![r].pc = "except"]
          /\ UNCHANGED processing_status
    /\ UNCHANGED <<triggers, upload_events, video, s3_video>>
    /\ UNCHANGED <<mergeVars, parseVars, dbVars, jobs, fn>>

\* The deletes from the bucket: of the video, then of the CSV when there is
\* one; either may raise.
TaskDelete(r) ==
    /\ tasks[r].pc = "deleting"
    /\ \/ /\ tasks' = [tasks EXCEPT ![r].pc = "except"]
          /\ UNCHANGED s3_video
       \/ /\ s3_video' = FALSE
          /\ \E next \in (IF video.has_csv THEN {"done", "except"} ELSE {"done"}) :
                tasks' = [tasks EXCEPT ![r].pc = next]
    /\ UNCHANGED <<processing_status, triggers, upload_events, video>>
    /\ UNCHANGED <<mergeVars, parseVars, dbVars, jobs, fn>>

\* The except branch of process_video_task: mark_upload_failed sets the
\* status to 'failed', or raises itself and the task ends.
TaskMarkFailed(r) ==
    /\ tasks[r].pc = "except"
    /\ tasks' = [tasks EXCEPT ![r].pc = "done"]
    /\ \/ processing_status' = "failed"
       \/ UNCHANGED processing_status
    /\ UNCHANGED <<triggers, upload_events, video, s3_video>>
    /\ UNCHANGED <<mergeVars, parseVars, dbVars, jobs, fn>>

TaskStep(r) ==
    \/ TaskProcess(r) \/ TaskStore(r) \/ TaskMarkProcessed(r)
    \/ TaskDelete(r) \/ TaskMarkFailed(r)

TriggerSelectStep     == \E r \in Triggers : TriggerSelect(r)
TriggerUpdateStep     == \E r \in Triggers : TriggerUpdate(r)
TaskProcessStep       == \E r \in Triggers : TaskProcess(r)
TaskStoreStep         == \E r \in Triggers : TaskStore(r)
TaskMarkProcessedStep == \E r \in Triggers : TaskMarkProcessed(r)
TaskDeleteStep        == \E r \in Triggers : TaskDelete(r)
TaskMarkFailedStep    == \E r \in Triggers : TaskMarkFailed(r)

NextUpload ==
    \/ TriggerSelectStep \/ TriggerUpdateStep \/ TaskProcessStep \/ TaskStoreStep
    \/ TaskMarkProcessedStep \/ TaskDeleteStep \/ TaskMarkFailedStep

-----------------------------------------------------------------------------
(* Pure functions: one call at a time, held in fn *)

NoFn == [op |-> "none"]

InitFnIdle == fn = NoFn

\* What every step of a function call leaves alone
otherVars == <<mergeVars, parseVars, dbVars, jobs, uploadVars>>

(* utils/tiles.py: parsing identifiers, cell bounds, viewports *)

\* The ids in the order of the two nested range() loops
get_tiles_in_viewport(min_lat, max_lat, min_lon, max_lon) ==
    LET min_lat_idx == min_lat \div KM_TO_DEG_LAT
        max_lat_idx == CeilDiv(max_lat, KM_TO_DEG_LAT)
        center_lat == (min_lat + max_lat) \div 2
        cos == CosClamped(center_lat)
        min_lon_idx == LonIndexFloor(min_lon, cos)
        max_lon_idx == LonIndexCeil(max_lon, cos)
        nlat == Max2(max_lat_idx + 1 - min_lat_idx, 0)
        nlon == Max2(max_lon_idx + 1 - min_lon_idx, 0)
    IN  [n \in 1..(nlat * nlon) |->
            FormatTileId(min_lat_idx + ((n - 1) \div nlon), min_lon_idx + ((n - 1) % nlon))]

\* Points, half-widths of viewport boxes, and tile id strings of the calls
TileLats == {45, 307333, 307349, 450000, 600000, -650100, 713738}
TileLons == {0, 100000, 500003, 767794, 900010, -881751, 1790000}
BoxMargins == {0, 1}

MaxIdLen == 6
IdChars  == {"T", "_", "1", "-", " "}
IdStrings == UNION {[1..n -> IdChars] : n \in 0..MaxIdLen}

\* The box [lat - d, lat + d] x [lon - d, lon + d] lies in the cell of (lat, lon)
BoxInCellOf(lat, lon, d) ==
    /\ (lat - d) \div KM_TO_DEG_LAT = (lat + d) \div KM_TO_DEG_LAT
    /\ LonIndexFloor(lon - d, CosClamped(lat)) = LonIndexFloor(lon + d, CosClamped(lat))

InitTiles ==
    fn \in {[op |-> "lat_lon_to_tile_id", pc |-> "call", lat |-> lat, lon |-> lon] :
                lat \in TileLats, lon \in TileLons}
       \cup {[op |-> "get_tiles_in_viewport", pc |-> "call", lat |-> b[1], lon |-> b[2],
              min_lat |-> b[1] - b[3], max_lat |-> b[1] + b[3],
              min_lon |-> b[2] - b[3], max_lon |-> b[2] + b[3]] :
                b \in {c \in TileLats \X TileLons \X BoxMargins : BoxInCellOf(c[1], c[2], c[3])}}
       \cup {[op |-> "parse_tile_id", pc |-> "call", tile_id |-> s] : s \in IdStrings}

LatLonToTileId ==
    /\ fn.op = "lat_lon_to_tile_id" /\ fn.pc = "call"
    /\ fn' = [op |-> fn.op, pc |-> "done", lat |-> fn.lat, lon |-> fn.lon,
              tile_id |-> lat_lon_to_tile_id(fn.lat, fn.lon)]
    /\ UNCHANGED otherVars

\* get_tile_bounds, tile_id_to_center and parse_tile_id of an id that
\* lat_lon_to_tile_id has returned
GetTileBounds ==
    /\ fn.op = "lat_lon_to_tile_id" /\ fn.pc = "done"
    /\ fn' = [op |-> "get_tile_bounds", pc |-> "done", lat |-> fn.lat, lon |-> fn.lon,
              tile_id |-> fn.tile_id, result |-> get_tile_bounds(fn.tile_id)]
    /\ UNCHANGED otherVars

TileIdToCenter ==
    /\ fn.op = "lat_lon_to_tile_id" /\ fn.pc = "done"
    /\ fn' = [op |-> "tile_id_to_center", pc |-> "done", lat |-> fn.lat, lon |-> fn.lon,
              tile_id |-> fn.tile_id, result |-> tile_id_to_center(fn.tile_id)]
    /\ UNCHANGED otherVars

ParseProducedId ==
    /\ fn.op = "lat_lon_to_tile_id" /\ fn.pc = "done"
    /\ fn' = [op |-> "parse_tile_id", pc |-> "done", lat |-> fn.lat, lon |-> fn.lon,
              tile_id |-> fn.tile_id, result |-> parse_tile_id(fn.tile_id)]
    /\ UNCHANGED otherVars

ParseTileId ==
    /\ fn.op = "parse_tile_id" /\ fn.pc = "call"
    /\ fn' = [op |-> fn.op, pc |-> "done", tile_id |-> fn.tile_id,
              result |-> parse_tile_id(fn.tile_id)]
    /\ UNCHANGED otherVars

GetTilesInViewport ==
    /\ fn.op = "get_tiles_in_viewport" /\ fn.pc = "call"
    /\ fn' = [fn EXCEPT !.pc = "done"] @@
             [tiles |-> get_tiles_in_viewport(fn.min_lat, fn.max_lat, fn.min_lon, fn.max_lon)]
    /\ UNCHANGED otherVars

NextTiles ==
    \/ LatLonToTileId \/ GetTileBounds \/ TileIdToCenter
    \/ ParseProducedId \/ ParseTileId \/ GetTilesInViewport

-----------------------------------------------------------------------------
(* services/video_pipeline.py: severity scores, in thousandths of a point *)

Points(n) == n * 1000

Min2of(a, b) == IF a <= b THEN a ELSE b

\* Coverage is a fraction of the image, in units of 1e-4
Coverages == {0, 1, 20, 100, 1500, 5000, 10000}
MaxVehicles == 30

\* A plausible slip: the final min(..., 100) left out.
CongestionSeverityUncapped(vehicle_coverage, vehicle_count) ==
    vehicle_coverage * 500 + Min2of(Points(vehicle_count * 2), Points(50))

\* vehicle_coverage * 100 * 50 is 5000 points per unit of coverage, that is
\* 500 thousandths of a point per 1e-4 of coverage.
calculate_congestion_severity(vehicle_coverage, vehicle_count) ==
    LET coverage_severity == vehicle_coverage * 500
        count_severity == Min2of(Points(vehicle_count * 2), Points(50))
    IN  Min2of(coverage_severity + count_severity, Points(100))

\* str.lower(), on the letters the detection types use
LowerChar(ch) ==
    CASE ch = "P" -> "p"
      [] ch = "C" -> "c"
      [] OTHER -> ch

Lower(s) == [k \in 1..Len(s) |-> LowerChar(s[k])]

\* sub in s
Contains(s, sub) ==
    \E k \in 1..(Len(s) - Len(sub) + 1) : SubSeq(s, k, k + Len(sub) - 1) = sub

POTHOLE == <<"p", "o", "t", "h", "o", "l", "e">>
CRACK   == <<"c", "r", "a", "c", "k">>

\* components.get(key, 0)
Component(components, key) ==
    IF key \in DOMAIN components THEN components[key] ELSE 0

\* A plausible slip: the clamp to [0, 100] left out.
SeverityUnclamped(severity) == severity

\* min(max(severity, 0), 100)
ClampSeverity(severity) == Min2of(Max2(severity, 0), Points(100))

\* Components are whole points; confidence is in hundredths; the defect
\* area is a fraction of the image in units of 1e-4, so that size * 5000
\* points is 500 thousandths of a point per unit.
calculate_severity(detection) ==
    LET components == detection.severity_components
    IN  IF DOMAIN components # {}
        THEN ClampSeverity(Component(components, "c") * 300
                           + Component(components, "s") * 250
                           + Component(components, "p") * 200
                           + Component(components, "i") * 150
                           + Component(components, "v") * 100)
        ELSE LET base_severity == detection.confidence * 500
                 size_factor == Min2of(detection.total_pothole_size * 500, Points(30))
                 det_type == Lower(detection.type)
                 type_factor == IF Contains(det_type, POTHOLE) THEN Points(20)
                                ELSE IF Contains(det_type, CRACK) THEN Points(10)
                                ELSE Points(5)
             IN  ClampSeverity(base_severity + size_factor + type_factor)

\* Detections of the calls
ComponentKeySets == {{}, {"c"}, {"p", "v"}, {"c", "s", "p", "i", "v"}}
ComponentValues  == {-40, 0, 60, 100, 400}
Confidences      == {0, 45, 90, 100}
PotholeSizes     == {0, 10, 59, 60, 61, 10000}
DetectionTypes ==
    {<<>>,
     <<"p", "o", "t", "h", "o", "l", "e">>,
     <<"P", "o", "t", "h", "o", "l", "e">>,
     <<"r", "o", "a", "d", "_", "c", "r", "a", "c", "k">>,
     <<"c", "r", "a", "c", "k", "_", "p", "o", "t", "h", "o", "l", "e">>,
     <<"d", "e", "b", "r", "i", "s">>}

Detections ==
    {[severity_components |-> c, confidence |-> 90, total_pothole_size |-> 10,
      type |-> POTHOLE] :
        c \in UNION {[K -> ComponentValues] : K \in ComponentKeySets \ {{}}}}
    \cup
    {[severity_components |-> <<>>, confidence |-> conf, total_pothole_size |-> size,
      type |-> t] :
        conf \in Confidences, size \in PotholeSizes, t \in DetectionTypes}

InitSeverity ==
    fn \in {[op |-> "calculate_congestion_severity", pc |-> "call",
             total_vehicle_coverage |-> c, vehicle_count |-> n] :
                c \in Coverages, n \in 0..MaxVehicles}
       \cup {[op |-> "calculate_severity", pc |-> "call", detection |-> d] :
                d \in Detections}

CalculateCongestionSeverity ==
    /\ fn.op = "calculate_congestion_severity" /\ fn.pc = "call"
    /\ fn' = [fn EXCEPT !.pc = "done"] @@
             [result |-> calculate_congestion_severity(fn.total_vehicle_coverage,
                                                       fn.vehicle_count)]
    /\ UNCHANGED otherVars

CalculateSeverity ==
    /\ fn.op = "calculate_severity" /\ fn.pc = "call"
    /\ fn' = [fn EXCEPT !.pc = "done"] @@ [result |-> calculate_severity(fn.detection)]
    /\ UNCHANGED otherVars

NextSeverity == CalculateCongestionSeverity \/ CalculateSeverity

-----------------------------------------------------------------------------
(* merge_metrics: the CSV read loop and the summary of one window *)

\* ---- the read loop of lines 48-104, row by row

MaxLoadRows == 2

\* A row of the sensor CSV, by what the loop does with it: whether it has a
\* SensorType column, and whether the fields parse. Time is the Time
\* column; Values are Value1..3; Common are Pothole, Latitude, Longitude;
\* Acc and Gyro are the AccX..Z and GyroX..Z columns of the wide shape,
\* which may be absent, parse, or fail to parse (a short row leaves None in
\* them, and float(None) raises).
FieldStates  == {"ok", "bad"}
ColumnStates == {"absent", "ok", "bad"}

LoadRow ==
    {r \in [SensorType : BOOLEAN, Time : FieldStates, Values : FieldStates,
            Common : FieldStates, Acc : ColumnStates, Gyro : ColumnStates] :
        IF r.SensorType THEN r.Acc = "absent" /\ r.Gyro = "absent"
                        ELSE r.Values = "ok"}

\* The samples the loop body appends for row number n, in order. The
\* except clause ends the row where a field fails; what was appended before
\* stays in the list.
ReadRow(row, n) ==
    IF row.Time = "bad" THEN <<>>
    ELSE IF row.SensorType
    THEN IF row.Values = "bad" \/ row.Common = "bad" THEN <<>>
         ELSE <<[row |-> n, type |-> "SensorType"]>>
    ELSE IF row.Common = "bad" THEN <<>>
    ELSE LET acc == IF row.Acc = "ok" THEN <<[row |-> n, type |-> "Accelerometer"]>>
                    ELSE <<>>
         IN  IF row.Acc = "bad" THEN <<>>
             ELSE IF row.Gyro = "ok"
                  THEN acc \o <<[row |-> n, type |-> "Gyroscope"]>>
                  ELSE acc

RECURSIVE ReadRows(_, _)
ReadRows(rows, n) ==
    IF n = 0 THEN <<>> ELSE ReadRows(rows, n - 1) \o ReadRow(rows[n], n)

load_sensor_data(rows) == ReadRows(rows, Len(rows))

\* ---- the summary of one window, lines 164-293

MaxWindowReadings == 3
MaxCvEvents == 2

\* The window opens at START_TIME (milliseconds)
StartTime == 10000

\* Samples of the window: accelerometer z in hundredths, or a gyroscope
\* sample
WindowSample ==
    {[type |-> "Accelerometer", z |-> z] : z \in {800, 980, 1200}}
    \cup {[type |-> "Gyroscope", z |-> 1]}

\* Vision records: per-frame detections with the time of their frame, one
\* before start - 1 s and one inside the window; coverage in hundredths,
\* defect area in units of 1e-4
CvTimes == {StartTime - 2000, StartTime - 500}
CvEvent ==
    {[type |-> "pothole_cv", timestamp |-> t, data |-> d] :
        t \in CvTimes,
        d \in {[potholes |-> 0, total_pothole_size |-> 0],
               [potholes |-> 2, total_pothole_size |-> 30]}}
    \cup
    {[type |-> "congestion_cv", timestamp |-> t, data |-> d] :
        t \in CvTimes,
        d \in {[car |-> 0, total_vehicle_coverage |-> 0],
               [car |-> 3, total_vehicle_coverage |-> 60]}}

\* [e['data'] for e in cv_events if e['type'] == type and in the window]
WindowCv(cv, type, start_time) ==
    SelectSeq(cv, LAMBDA e : e.type = type /\ InCvWindow(e.timestamp, start_time))

RECURSIVE SeqSum(_)
SeqSum(s) == IF s = <<>> THEN 0 ELSE s[1] + SeqSum(Tail(s))

SeqMax(s) == SetMax({s[k] : k \in 1..Len(s)})

Abs(x) == IF x < 0 THEN -x ELSE x

\* The integer square root
RECURSIVE ISqrtIn(_, _, _)
ISqrtIn(x, lo, hi) ==
    IF lo = hi THEN lo
    ELSE LET mid == (lo + hi + 1) \div 2
         IN  IF mid * mid <= x THEN ISqrtIn(x, mid, hi) ELSE ISqrtIn(x, lo, mid - 1)

ISqrt(x) == ISqrtIn(x, 0, 40000)

\* The square root taken to further decimal digits, one digit a step as in
\* long-hand extraction: root is floor(sqrt(x)) and rem is x - root^2; the
\* result is floor(sqrt(x) * 10^digits).
RECURSIVE SqrtDigits(_, _, _)
SqrtDigits(root, rem, digits) ==
    IF digits = 0 THEN root
    ELSE LET d == SetMax({c \in 0..9 : (20 * root + c) * c <= 100 * rem})
         IN  SqrtDigits(10 * root + d, 100 * rem - (20 * root + d) * d, digits - 1)

\* round(x, k) of a value held in units u of which d make one unit of the
\* k-th decimal; a tie goes up
RoundTo(x, d) == (x + d \div 2) \div d

\* safe_mean, in hundredths of the unit of the data
safe_mean(data) == IF data = <<>> THEN 0 ELSE (100 * SeqSum(data)) \div Len(data)

\* safe_stdev, in thousandths of the unit of the data, rounded down: the
\* sample standard deviation sqrt((n * sum(x^2) - sum(x)^2) / (n * (n - 1))),
\* which is sqrt(num * m) / m for m = n * (n - 1)
safe_stdev(data) ==
    IF Len(data) <= 1 THEN 0
    ELSE LET n    == Len(data)
             m    == n * (n - 1)
             num  == n * SeqSum([k \in 1..n |-> data[k] * data[k]])
                         - SeqSum(data) * SeqSum(data)
             root == ISqrt(num * m)
         IN  SqrtDigits(root, num * m - root * root, 3) \div m

\* acc_z_vals: the z of the accelerometer samples of the window
AccZVals(window_readings) ==
    LET acc_readings == SelectSeq(window_readings, LAMBDA r : r.type = "Accelerometer")
    IN  [k \in 1..Len(acc_readings) |-> acc_readings[k].z]

\* roughness_index = az_std * 10, in units of 1e-4: z is in hundredths and
\* safe_stdev in thousandths of them
RoughnessIndex(window_readings) == safe_stdev(AccZVals(window_readings))

\* frames_with_pothole = sum(1 for c in pothole_counts if c > 0)
FramesWithPothole(cv, start_time) ==
    LET window_cv_pothole == WindowCv(cv, "pothole_cv", start_time)
    IN  Cardinality({k \in 1..Len(window_cv_pothole) :
                        window_cv_pothole[k].data.potholes > 0})

\* total_frames_est: the congestion records of the window when there are
\* any, else its pothole records when there are any, else 1
TotalFramesEst(cv, start_time) ==
    LET window_cv_pothole    == WindowCv(cv, "pothole_cv", start_time)
        window_cv_congestion == WindowCv(cv, "congestion_cv", start_time)
    IN  IF window_cv_congestion # <<>> THEN Len(window_cv_congestion)
        ELSE IF window_cv_pothole # <<>> THEN Len(window_cv_pothole)
        ELSE 1

\* validation_score = min(100, pothole_persistence * 50 + roughness_index * 5)
\* before it is rounded, in units of 1e-4 and rounded down
ValidationScore(window_readings, cv, start_time) ==
    Min2of(1000000,
           (500000 * FramesWithPothole(cv, start_time))
               \div TotalFramesEst(cv, start_time)
           + 5 * RoughnessIndex(window_readings))

\* The body of the trigger branch for one window: window_readings are the
\* samples of the window, cv_events all vision records of the run. The
\* fields are those of the event dictionary, rounded where the code rounds:
\* validation_score, roughness_index, impact_intensity and
\* traffic_density_score in hundredths, pothole_persistence in thousandths.
window_event(window_readings, cv, start_time) ==
    IF window_readings = <<>> THEN [emitted |-> FALSE]
    ELSE
    LET window_cv_pothole == WindowCv(cv, "pothole_cv", start_time)
        window_cv_congestion == WindowCv(cv, "congestion_cv", start_time)
        acc_z_vals == AccZVals(window_readings)
        pothole_sizes == [k \in 1..Len(window_cv_pothole) |->
                             window_cv_pothole[k].data.total_pothole_size]
        frames_with_pothole == FramesWithPothole(cv, start_time)
        total_frames_est == TotalFramesEst(cv, start_time)
        vehicle_counts == [k \in 1..Len(window_cv_congestion) |-> window_cv_congestion[k].data.car]
        vehicle_coverages == [k \in 1..Len(window_cv_congestion) |->
                                 window_cv_congestion[k].data.total_vehicle_coverage]
        \* in units of 1e-4
        avg_vehicle_coverage == safe_mean(vehicle_coverages)
        \* avg_vehicle_coverage * 20, in units of 1e-4
        traffic_density_score == avg_vehicle_coverage * 20
        traffic_level == IF traffic_density_score > 100000 THEN "heavy"
                         ELSE IF traffic_density_score > 50000 THEN "moderate"
                         ELSE "light"
        validation_score == ValidationScore(window_readings, cv, start_time)
    IN  [emitted |-> TRUE,
         validation_score |-> RoundTo(validation_score, 100),
         roughness_index |-> RoundTo(RoughnessIndex(window_readings), 100),
         impact_intensity |-> IF acc_z_vals = <<>> THEN 0
                              ELSE SeqMax([k \in 1..Len(acc_z_vals) |-> Abs(acc_z_vals[k])]),
         traffic_level |-> traffic_level,
         needs_attention |-> validation_score > 500000,
         pothole_confidence |-> IF frames_with_pothole > 0 THEN 100 ELSE 0,
         frames_with_pothole |-> frames_with_pothole,
         total_frames |-> total_frames_est,
         pothole_persistence |-> RoundTo(1000 * frames_with_pothole, total_frames_est),
         avg_pothole_size |-> safe_mean(pothole_sizes),
         max_pothole_size |-> IF pothole_sizes = <<>> THEN 0 ELSE SeqMax(pothole_sizes),
         avg_vehicles_per_frame |-> safe_mean(vehicle_counts),
         peak_vehicle_count |-> IF vehicle_counts = <<>> THEN 0 ELSE SeqMax(vehicle_counts),
         avg_vehicle_coverage |-> avg_vehicle_coverage,
         peak_vehicle_coverage |-> IF vehicle_coverages = <<>> THEN 0
                                   ELSE SeqMax(vehicle_coverages),
         traffic_density_score |-> RoundTo(traffic_density_score, 100)]

InitWindow ==
    fn \in {[op |-> "load_sensor_data", pc |-> "call", rows |-> rows] :
                rows \in SeqsUpTo(LoadRow, MaxLoadRows)}
       \cup {[op |-> "window_event", pc |-> "call", window_readings |-> w, cv_events |-> cv] :
                w \in SeqsUpTo(WindowSample, MaxWindowReadings) \ {<<>>},
                cv \in SeqsUpTo(CvEvent, MaxCvEvents)}

LoadSensorData ==
    /\ fn.op = "load_sensor_data" /\ fn.pc = "call"
    /\ fn' = [fn EXCEPT !.pc = "done"] @@ [sensor_data |-> load_sensor_data(fn.rows)]
    /\ UNCHANGED otherVars

WindowEventOfTrigger ==
    /\ fn.op = "window_event" /\ fn.pc = "call"
    /\ fn' = [fn EXCEPT !.pc = "done"] @@
             [event |-> window_event(fn.window_readings, fn.cv_events, StartTime)]
    /\ UNCHANGED otherVars

NextWindow == LoadSensorData \/ WindowEventOfTrigger

\* ---- windows whose score lies near 50, and windows with more vision records

MaxScoreReadings == 3
MaxScoreCv       == 3

\* Accelerometer z of 8.00, 8.99 and 10.00: their standard deviation is
\* 1.0000167
ScoreSample == {[type |-> "Accelerometer", z |-> z] : z \in {800, 899, 1000}}

\* The vision records of CvEvent that lie in the window
ScoreCvEvent == {e \in CvEvent : InCvWindow(e.timestamp, StartTime)}

InitScore ==
    fn \in {[op |-> "window_event", pc |-> "call", window_readings |-> w, cv_events |-> cv] :
                w \in SeqsUpTo(ScoreSample, MaxScoreReadings) \ {<<>>},
                cv \in SeqsUpTo(ScoreCvEvent, MaxScoreCv)}

NextScore == WindowEventOfTrigger

(* interpolate_gps_for_frame in Python's arithmetic: services/video_pipeline.py *)

\* A float has a significand of SignificandBits bits and is a multiple of
\* 2^-FractionBits; a Python float has 53 and 1074. A float x is held as the
\* integer x * FloatUnit.
SignificandBits == 4
FractionBits    == 8
FloatUnit       == 2 ^ FractionBits

\* The largest k with 2^k * den <= mag, for mag >= den > 0
RECURSIVE Log2Floor(_, _)
Log2Floor(mag, den) == IF 2 * den > mag THEN 0 ELSE 1 + Log2Floor(mag, 2 * den)

\* The float nearest to num / den (in units of 2^-FractionBits), ties to the
\* even significand: the rounding of every arithmetic operation on floats
RoundFloat(num, den) ==
    LET mag     == IF num < 0 THEN -num ELSE num
        k       == IF mag >= den THEN Log2Floor(mag, den) ELSE 0
        spacing == IF k >= SignificandBits - 1 THEN 2 ^ (k - SignificandBits + 1) ELSE 1
        q       == mag \div (den * spacing)
        rem     == mag % (den * spacing)
        up      == 2 * rem > den * spacing \/ (2 * rem = den * spacing /\ q % 2 = 1)
        nearest == (IF up THEN q + 1 ELSE q) * spacing
    IN  IF num < 0 THEN -nearest ELSE nearest

\* x / y, x * y, x + y and x - y of floats; float(n) of a small integer
FloatDiv(x, y) == RoundFloat(x * FloatUnit, y)
FloatMul(x, y) == RoundFloat(x * y, FloatUnit)
FloatAdd(x, y) == RoundFloat(x + y, 1)
FloatSub(x, y) == RoundFloat(x - y, 1)
FloatOfInt(n)  == n * FloatUnit

\* position, idx_low, idx_high and t as the function computes them
FloatPosition(frame_idx, total_frames, n) ==
    LET position == FloatMul(FloatDiv(FloatOfInt(frame_idx),
                                      FloatOfInt(Max2(total_frames - 1, 1))),
                             FloatOfInt(n - 1))
        idx_low  == position \div FloatUnit             \* int(position)
    IN  [position |-> position,
         idx_low  |-> idx_low,
         idx_high |-> IF idx_low + 1 <= n - 1 THEN idx_low + 1 ELSE n - 1,
         t        |-> FloatSub(position, FloatOfInt(idx_low))]

\* low * (1 - t) + high * t
FloatLerp(low, high, t) ==
    FloatAdd(FloatMul(low, FloatSub(FloatOfInt(1), t)), FloatMul(high, t))

\* The call, with the two indices it reads the samples at
interpolate_gps_for_frame_float(frame_idx, total_frames, gps) ==
    IF gps = <<>>
    THEN [idx_low |-> 0, idx_high |-> 0,
          result |-> [lat |-> RoundFloat(307333 * FloatUnit, 10000),
                      lon |-> RoundFloat(767794 * FloatUnit, 10000),
                      velocity |-> 0, gyro_magnitude |-> 0]]
    ELSE LET at   == FloatPosition(frame_idx, total_frames, Len(gps))
             low  == gps[at.idx_low + 1]
             high == gps[at.idx_high + 1]
         IN  [idx_low  |-> at.idx_low,
              idx_high |-> at.idx_high,
              result   |->
                 IF at.idx_low = at.idx_high
                 THEN low
                 ELSE [lat            |-> FloatLerp(low.lat, high.lat, at.t),
                       lon            |-> FloatLerp(low.lon, high.lon, at.t),
                       velocity       |-> FloatLerp(low.velocity, high.velocity, at.t),
                       gyro_magnitude |-> FloatLerp(low.gyro_magnitude,
                                                    high.gyro_magnitude, at.t)]]

\* Frames of a video and samples of its CSV in a call
MaxInterpFrames == 4
MaxInterpGps    == 2

\* float(text) of a CSV field, for texts in sixteenths
FloatOfSixteenths(v) == RoundFloat(v * FloatUnit, 16)

\* Samples as parse_csv_for_gps makes them: floats, lat and lon not zero
InterpSample ==
    [lat            : {FloatOfSixteenths(v) : v \in {-18, 15, 18}},
     lon            : {FloatOfSixteenths(v) : v \in {16, 18}},
     velocity       : {FloatOfSixteenths(v) : v \in {0, 9}},
     gyro_magnitude : {FloatOfSixteenths(v) : v \in {0, 18}}]

InitInterp ==
    \E total_frames \in 1..MaxInterpFrames :
       \E frame_idx \in 0..(total_frames - 1) :
          \E gps \in SeqsUpTo(InterpSample, MaxInterpGps) :
             fn = [op |-> "interpolate_gps_for_frame", pc |-> "call",
                   frame_idx |-> frame_idx, total_frames |-> total_frames,
                   gps_data |-> gps]

InterpolateGpsForFrame ==
    /\ fn.op = "interpolate_gps_for_frame" /\ fn.pc = "call"
    /\ fn' = [fn EXCEPT !.pc = "done"] @@
             interpolate_gps_for_frame_float(fn.frame_idx, fn.total_frames, fn.gps_data)
    /\ UNCHANGED otherVars

NextInterp == InterpolateGpsForFrame


-----------------------------------------------------------------------------
(* Specifications *)

Init     == InitDB /\ InitJobsIdle /\ InitUploadIdle /\ InitMergeIdle /\ InitParseIdle /\ InitFnIdle
Next     == NextDB
Spec     == Init /\ [][Next]_vars

InitConc == InitDB /\ InitJobsIdle /\ InitUploadIdle /\ InitMergeIdle /\ InitParseIdle /\ InitFnIdle
SpecConc == InitConc /\ [][NextConc]_vars

InitM     == InitMerge /\ InitParseIdle /\ InitDBIdle /\ InitJobsIdle /\ InitUploadIdle /\ InitFnIdle
SpecMerge == InitM /\ [][NextMerge]_vars

InitP     == InitParse /\ InitMergeIdle /\ InitDBIdle /\ InitJobsIdle /\ InitUploadIdle /\ InitFnIdle
SpecParse == InitP /\ [][NextParse]_vars

InitT     == InitTiles /\ InitMergeIdle /\ InitParseIdle /\ InitDBIdle /\ InitJobsIdle /\ InitUploadIdle
SpecTiles == InitT /\ [][NextTiles]_vars

InitS        == InitSeverity /\ InitMergeIdle /\ InitParseIdle /\ InitDBIdle /\ InitJobsIdle /\ InitUploadIdle
SpecSeverity == InitS /\ [][NextSeverity]_vars

InitMW      == InitMergeWindows /\ InitParseIdle /\ InitDBIdle /\ InitJobsIdle /\ InitUploadIdle /\ InitFnIdle
SpecWindows == InitMW /\ [][NextMerge]_vars

InitW      == InitWindow /\ InitMergeIdle /\ InitParseIdle /\ InitDBIdle /\ InitJobsIdle /\ InitUploadIdle
SpecWindow == InitW /\ [][NextWindow]_vars

InitSc    == InitScore /\ InitMergeIdle /\ InitParseIdle /\ InitDBIdle /\ InitJobsIdle /\ InitUploadIdle
SpecScore == InitSc /\ [][NextScore]_vars

InitI      == InitInterp /\ InitMergeIdle /\ InitParseIdle /\ InitDBIdle /\ InitJobsIdle /\ InitUploadIdle
SpecInterp == InitI /\ [][NextInterp]_vars

InitU      == InitUpload /\ InitMergeIdle /\ InitParseIdle /\ InitDBIdle /\ InitJobsIdle /\ InitFnIdle
SpecUpload == InitU /\ [][NextUpload]_vars

\* A queued background task is run by the event loop, and each of its awaits
\* returns or raises; a request in progress runs to its response.
FairUpload == /\ \A r \in Triggers : WF_vars(TaskStep(r))
              /\ \A r \in Triggers : WF_vars(TriggerUpdate(r))
SpecUploadFair == SpecUpload /\ FairUpload

-----------------------------------------------------------------------------
(*                         Properties: merge_metrics                       *)

SampleFlags == [k \in 1..Len(sensor_data) |-> sensor_data[k].pothole_flag]

\* Loop indices (0-based) at which the run has emitted an event
EmittedAt == {metric_events[k].src_index : k \in 1..Len(metric_events)}

\* 0-based indices below n of samples with flag 1 whose predecessor in the
\* sorted stream has flag 0
EdgesBetweenSamples(n) ==
    {k \in 1..(n - 1) : SampleFlags[k + 1] = 1 /\ SampleFlags[k] = 0}

\* The same, the first sample of the stream counting as an edge when its
\* flag is 1
EdgesFromIdle(n) ==
    EdgesBetweenSamples(n) \cup {k \in {0} : n > 0 /\ SampleFlags[1] = 1}

MergeScanned == merge_pc \in {"scan", "save", "done"}

\* C1 as stated: among the samples scanned so far, exactly one event per
\* sample with flag 1 whose predecessor has flag 0, and none for any other
\* sample.
C1_OneEventPerEdgeBetweenSamples ==
    MergeScanned =>
        /\ EmittedAt = EdgesBetweenSamples(i)
        /\ Len(metric_events) = Cardinality(EmittedAt)

\* C1, amended: among the samples scanned so far, exactly one event per
\* sample with flag 1 whose predecessor has flag 0 or which is the first
\* sample of the sorted stream, and none for any other sample; a run of
\* consecutive 1s opens one window.
C1_OneEventPerRisingEdge ==
    MergeScanned =>
        /\ EmittedAt = EdgesFromIdle(i)
        /\ Len(metric_events) = Cardinality(EmittedAt)

\* C1 witness: the stream with flags 0,0,1,1,0,1 has been scanned and has
\* yielded two events, at indices 2 and 5.
C1_Witness ==
    /\ merge_pc = "done"
    /\ SampleFlags = <<0, 0, 1, 1, 0, 1>>
    /\ Len(metric_events) = 2
    /\ EmittedAt = {2, 5}

\* C9: the events of one run are listed in non-decreasing order of
\* event_timestamp, whatever the order of the rows in the file.
C9_EventsInTimestampOrder ==
    \A a, b \in 1..Len(metric_events) :
        a < b => metric_events[a].event_timestamp <= metric_events[b].event_timestamp

\* C9 witness: a file whose rows are not in time order has yielded events
\* of two different seconds.
C9_Witness ==
    /\ merge_pc = "done"
    /\ \E a, b \in 1..Len(csv_rows) :
          a < b /\ parse_csv_timestamp(csv_rows[a].Time) > parse_csv_timestamp(csv_rows[b].Time)
    /\ \E a, b \in 1..Len(metric_events) :
          metric_events[a].event_timestamp < metric_events[b].event_timestamp

-----------------------------------------------------------------------------
(*                Properties: parse_model_outputs_to_events                *)

\* C10 as stated: the returned list is in non-decreasing order of
\* detected_at.
C10_ParsedEventsInDetectionOrder ==
    parse_pc = "done" =>
        \A a, b \in 1..Len(parsed_events) :
            a < b => parsed_events[a].detected_at <= parsed_events[b].detected_at

-----------------------------------------------------------------------------
(*                       Properties: event service                         *)

\* Stored events of one tile
EventsOfTile(t) == {e \in events : e.tile_id = t}

Min2(a, b) == IF a <= b THEN a ELSE b

\* A row with its last_updated column blanked
SansLastUpdated(row) == IF row = NoRow THEN NoRow ELSE [row EXCEPT !.last_updated = 0]

\* A step in which a call returns
Returns(op) == call.pc = "called" /\ call.op = op /\ call'.pc = "returned"

\* The step in which the second of two successive update_tile_aggregate
\* calls for one tile returns; no event was stored between the two.
SecondUpdateReturns == Returns("update_tile_aggregate") /\ call.again

\* The 20 newest events of the tile are one definite set: the tile has at
\* most 20 events, or some detected_at has exactly 20 events at or after it.
WindowDetermined(t) ==
    \/ Cardinality(EventsOfTile(t)) <= TILE_LAST_N_EVENTS
    \/ \E c \in {e.detected_at : e \in EventsOfTile(t)} :
          Cardinality({e \in EventsOfTile(t) : e.detected_at >= c}) = TILE_LAST_N_EVENTS

\* C3 as stated: after the second of two successive calls for one tile, with
\* the stored events unchanged, the tile's row equals in every column the
\* row left by the first call.
C3_SecondUpdateLeavesRowIdentical ==
    [][SecondUpdateReturns =>
          tile_aggregates'[call.tile_id] = tile_aggregates[call.tile_id]]_vars

\* C3, amended: after the second of two successive calls for one tile, with
\* the stored events unchanged and the 20 newest events of the tile a
\* definite set, the tile's row equals the row left by the first call in
\* every column except last_updated; no other row changes.
C3_SecondUpdateLeavesRowButLastUpdated ==
    [][SecondUpdateReturns /\ WindowDetermined(call.tile_id) =>
          /\ SansLastUpdated(tile_aggregates'[call.tile_id])
                = SansLastUpdated(tile_aggregates[call.tile_id])
          /\ \A t \in Tiles \ {call.tile_id} : tile_aggregates'[t] = tile_aggregates[t]]_vars

\* C3 witness: the second of two successive calls has returned for a tile
\* that has a row, at a later clock reading than the first.
C3_Witness ==
    /\ call.pc = "returned"
    /\ call.op = "update_tile_aggregate"
    /\ call.again
    /\ \E t \in call.tiles :
          /\ tile_aggregates[t] # NoRow
          /\ tile_aggregates[t].last_updated = now
          /\ now > 0
          /\ WindowDetermined(t)

\* C4: when a call has recomputed a tile, the rows W the aggregate was
\* computed from are stored events of that tile, min(20, number of events of
\* the tile) of them, none older than an event of the tile left out; and the
\* row holds the count, the per-kind counts, the maxima, the rounded average
\* and the latest detected_at of exactly W.
C4_AggregateOfNewestTwenty ==
    call.pc = "returned" =>
        \A t \in call.tiles :
            LET E == EventsOfTile(t)
                W == {e \in E : e.event_id \in call.last_n[t]}
                row == tile_aggregates[t]
            IN  /\ call.last_n[t] \subseteq {e.event_id : e \in E}
                /\ Cardinality(W) = Min2(TILE_LAST_N_EVENTS, Cardinality(E))
                /\ \A e \in W : \A f \in E \ W : e.detected_at >= f.detected_at
                /\ W # {} =>
                     /\ row # NoRow
                     /\ row.total_events = Cardinality(W)
                     /\ row.pothole_count = Cardinality({e \in W : e.event_type = "pothole"})
                     /\ row.congestion_count = Cardinality({e \in W : e.event_type = "congestion"})
                     /\ row.crack_count = Cardinality({e \in W : e.event_type = "crack"})
                     /\ \E e \in W : e.severity = row.max_severity
                     /\ \A e \in W : e.severity <= row.max_severity
                     /\ \E e \in W : e.detected_at = row.last_event_at
                     /\ \A e \in W : e.detected_at <= row.last_event_at
                     /\ 2 * row.avg_severity * Cardinality(W) - Cardinality(W)
                            <= 200 * SumSeverity(W)
                     /\ 200 * SumSeverity(W)
                            < 2 * row.avg_severity * Cardinality(W) + Cardinality(W)

\* C4 witness: a tile that had 25 events got a 26th, newer than all, and was
\* recomputed: the new event (101) is among the 20 rows used, and the two
\* events that shared the oldest detected_at of the earlier windows (5 and
\* 6) are not.
C4_Witness ==
    /\ call.pc = "returned"
    /\ call.op = "store_events_and_update_tiles"
    /\ "T_1_1" \in call.tiles
    /\ Cardinality(EventsOfTile("T_1_1")) = TILE_LAST_N_EVENTS + 6
    /\ \A e \in EventsOfTile("T_1_1") : e.event_id # 101 => e.detected_at < 14
    /\ 101 \in call.last_n["T_1_1"]
    /\ 5 \notin call.last_n["T_1_1"]
    /\ 6 \notin call.last_n["T_1_1"]
    /\ tile_aggregates["T_1_1"].total_events = TILE_LAST_N_EVENTS

\* Events of the batch that meet no stored row and no earlier event of the
\* batch with their event_id
NewRows(batch) ==
    {batch[k] : k \in {n \in 1..Len(batch) :
                          /\ \A r \in events : r.event_id # batch[n].event_id
                          /\ \A m \in 1..(n - 1) : batch[m].event_id # batch[n].event_id}}

\* C5: a call of store_events_and_update_tiles adds to table events exactly
\* the events of the batch whose event_id is not stored yet (the first of
\* each such id), changes and removes no row, leaves one row per event_id,
\* leaves the table as it was when every event_id of the batch was stored
\* already, and recomputes exactly the distinct tile_ids of the batch.
C5_StoreIsIdempotentOnEventId ==
    [][Returns("store_events_and_update_tiles") =>
          /\ events' = events \cup NewRows(call.batch)
          /\ \A r1, r2 \in events' : r1.event_id = r2.event_id => r1 = r2
          /\ (\A k \in 1..Len(call.batch) :
                 \E r \in events : r.event_id = call.batch[k].event_id)
                => events' = events
          /\ call'.tiles = {call.batch[k].tile_id : k \in 1..Len(call.batch)}]_vars

\* C5 witness: a call whose batch named two tiles and only event_ids stored
\* already has returned; it added no row.
C5_Witness ==
    /\ call.pc = "returned"
    /\ call.op = "store_events_and_update_tiles"
    /\ call.inserted = 0
    /\ Cardinality(call.tiles) = 2
    /\ \E e \in events : e.event_id = 101

\* C7: no step removes a row of tile_aggregates, and a call that runs
\* update_tile_aggregate for a tile without stored events leaves that tile's
\* row (or its absence) as it was.
C7_EmptyTileWritesNothing ==
    [][/\ \A t \in Tiles : tile_aggregates[t] # NoRow => tile_aggregates'[t] # NoRow
       /\ (call.pc = "called" /\ call'.pc = "returned") =>
             \A t \in call'.tiles :
                 {e \in events' : e.tile_id = t} = {} =>
                     tile_aggregates'[t] = tile_aggregates[t]]_vars

\* C7 witness: update_tile_aggregate has returned for a tile with no stored
\* event, and the tile has no row.
C7_Witness ==
    /\ call.pc = "returned"
    /\ call.op = "update_tile_aggregate"
    /\ \E t \in call.tiles : EventsOfTile(t) = {} /\ tile_aggregates[t] = NoRow

\* The tiles a call names: its tile_id, or the tile_ids of its batch
TilesNamed(c) ==
    IF c.op = "update_tile_aggregate" THEN {c.tile_id}
    ELSE {c.batch[k].tile_id : k \in 1..Len(c.batch)}

\* C8: a call changes the row of no tile it does not name, and the rows the
\* aggregate of a tile X is computed from are events with tile_id = X, the
\* row written counting just those.
C8_TilesIndependent ==
    [][(call.pc = "called" /\ call'.pc = "returned") =>
          /\ \A t \in Tiles \ TilesNamed(call) : tile_aggregates'[t] = tile_aggregates[t]
          /\ \A t \in call'.tiles :
                /\ call'.last_n[t] \subseteq {e.event_id : e \in {f \in events' : f.tile_id = t}}
                /\ call'.last_n[t] # {} =>
                      tile_aggregates'[t].total_events = Cardinality(call'.last_n[t])]_vars

\* C8 witness: a call naming only T_1_2 has returned and has written its
\* row, while T_1_1 holds a row and events of its own.
C8_Witness ==
    /\ call.pc = "returned"
    /\ call.tiles = {"T_1_2"}
    /\ tile_aggregates["T_1_2"] # NoRow
    /\ tile_aggregates["T_1_1"] # NoRow
    /\ EventsOfTile("T_1_1") # {}
    /\ tile_aggregates["T_1_2"].total_events = Cardinality(EventsOfTile("T_1_2"))

-----------------------------------------------------------------------------
(*                Properties: event service, concurrent jobs               *)

AllJobsDone == \A j \in Jobs : jobs[j].pc = "done"

\* The row of tile t is what update_tile_aggregate computes from the events
\* stored now (last_updated aside).
AggregateIsCurrent(t) ==
    \E W \in LastN(events, t, TILE_LAST_N_EVENTS) :
        SansLastUpdated(tile_aggregates[t]) = SansLastUpdated(AggregateRow(t, Stats(W), 0))

\* C2 as stated: once every job has finished, the row of each tile that has
\* events equals the summary recomputed from the events stored at the end.
C2_AggregateCurrentWhenJobsDone ==
    AllJobsDone => \A t \in Tiles : EventsOfTile(t) # {} => AggregateIsCurrent(t)

\* C6: a committed row of table events is never changed or removed.
C6_EventsWriteOnce ==
    [][\A e \in events : e \in events']_vars

\* C6 witness: one job has failed, another has finished after offering an
\* event whose event_id was taken by a different stored row, and that row
\* stands.
C6_Witness ==
    \E j1, j2 \in Jobs :
        /\ jobs[j1].pc = "failed"
        /\ jobs[j2].pc = "done"
        /\ jobs[j2].conflict

-----------------------------------------------------------------------------
(*                         Properties: utils/tiles.py                      *)

FnDone(op) == fn.op = op /\ fn.pc = "done"

\* C11: get_tiles_in_viewport of a box that lies inside the cell of a point
\* returns exactly one tile id, the lat_lon_to_tile_id of the point.
C11_ViewportInsideCellGivesItsTile ==
    FnDone("get_tiles_in_viewport") =>
        fn.tiles = <<lat_lon_to_tile_id(fn.lat, fn.lon)>>

\* C12: the rectangle get_tile_bounds returns for the tile id of a point
\* contains the point, in latitude and in longitude.
C12_TileBoundsContainPoint ==
    FnDone("get_tile_bounds") =>
        /\ fn.result.ok
        /\ fn.result.min_lat <= fn.lat /\ fn.lat <= fn.result.max_lat
        /\ LonLeq(fn.result.min_lon, fn.lon)
        /\ LonGeq(fn.result.max_lon, fn.lon)

\* An integer as lat_lon_to_tile_id writes it: digits, after an optional "-"
IsIntLiteral(s) ==
    LET digits == IF s # <<>> /\ s[1] = "-" THEN Tail(s) ELSE s
    IN  digits # <<>> /\ \A k \in 1..Len(digits) : IsDigit(digits[k])

\* The string has the shape T_<int>_<int>
HasTileIdShape(id) ==
    \E m \in 4..(Len(id) - 1) :
        /\ id[1] = "T" /\ id[2] = "_" /\ id[m] = "_"
        /\ IsIntLiteral(SubSeq(id, 3, m - 1))
        /\ IsIntLiteral(SubSeq(id, m + 1, Len(id)))

\* C13: parse_tile_id returns a value only for strings of the shape
\* T_<int>_<int> and raises ValueError for every other string; an id
\* produced by lat_lon_to_tile_id is accepted.
C13_OnlyTileIdShapeAccepted ==
    FnDone("parse_tile_id") => (fn.result.ok <=> HasTileIdShape(fn.tile_id))

-----------------------------------------------------------------------------
(*                       Properties: severity scores                       *)

\* C14: calculate_congestion_severity returns
\* min(coverage_fraction * 100 * 0.5 + min(vehicle_count * 2, 50), 100):
\* half a point per percent of coverage, in thousandths 5 per 1e-4 of
\* coverage.
C14_CongestionSeverityFormula ==
    FnDone("calculate_congestion_severity") =>
        LET coverage_term == fn.total_vehicle_coverage * 5
            count_term == IF fn.vehicle_count * 2 <= 50
                          THEN fn.vehicle_count * 2000 ELSE 50000
        IN  fn.result = (IF coverage_term + count_term <= 100000
                         THEN coverage_term + count_term ELSE 100000)

\* C15: the result of calculate_congestion_severity lies in [0, 100], no
\* greater vehicle_count with the same coverage gives a smaller result, and
\* no greater coverage with the same vehicle_count gives a smaller result.
C15_CongestionSeverityMonotone ==
    FnDone("calculate_congestion_severity") =>
        /\ 0 <= fn.result /\ fn.result <= 100000
        /\ \A n \in 0..MaxVehicles :
              n >= fn.vehicle_count =>
                  calculate_congestion_severity(fn.total_vehicle_coverage, n) >= fn.result
        /\ \A c \in Coverages :
              c >= fn.total_vehicle_coverage =>
                  calculate_congestion_severity(c, fn.vehicle_count) >= fn.result
        /\ \A n \in 0..MaxVehicles : \A c \in Coverages :
              /\ 0 <= calculate_congestion_severity(c, n)
              /\ calculate_congestion_severity(c, n) <= 100000

\* C15 witness: a call with coverage 0.002 and 10 vehicles has returned 30
\* points, less than the 70 points of coverage 0.01 with 10 vehicles and
\* less than the 32 points of coverage 0.002 with 11 vehicles.
C15_Witness ==
    /\ FnDone("calculate_congestion_severity")
    /\ fn.total_vehicle_coverage = 20
    /\ fn.vehicle_count = 10
    /\ fn.result = 30000
    /\ calculate_congestion_severity(100, 10) = 70000
    /\ calculate_congestion_severity(20, 11) = 32000

\* C16: the result of calculate_severity lies in [0, 100] and is the clamped
\* weighted sum 0.30 c + 0.25 s + 0.20 p + 0.15 i + 0.10 v when the detection
\* has non-empty severity_components, and else the clamped sum of
\* confidence * 50, min(area * 5000, 30) and the bonus of the type (20 with
\* 'pothole' in it, else 10 with 'crack' in it, else 5; letter case is not
\* distinguished).
C16_SeverityFormula ==
    FnDone("calculate_severity") =>
        LET d == fn.detection
            comps == d.severity_components
            get(k) == IF k \in DOMAIN comps THEN comps[k] ELSE 0
            weighted == 300 * get("c") + 250 * get("s") + 200 * get("p")
                           + 150 * get("i") + 100 * get("v")
            area == IF d.total_pothole_size * 500 < 30000
                    THEN d.total_pothole_size * 500 ELSE 30000
            bonus == IF Contains(Lower(d.type), POTHOLE) THEN 20000
                     ELSE IF Contains(Lower(d.type), CRACK) THEN 10000 ELSE 5000
            raw == IF DOMAIN comps # {} THEN weighted
                   ELSE d.confidence * 500 + area + bonus
        IN  /\ 0 <= fn.result /\ fn.result <= 100000
            /\ (0 <= raw /\ raw <= 100000) => fn.result = raw
            /\ raw < 0 => fn.result = 0
            /\ raw > 100000 => fn.result = 100000

\* C16 witness: a detection whose five components are 400 each has been
\* scored: the weighted sum is 400 and the result is 100.
C16_Witness ==
    /\ FnDone("calculate_severity")
    /\ DOMAIN fn.detection.severity_components = {"c", "s", "p", "i", "v"}
    /\ \A k \in {"c", "s", "p", "i", "v"} : fn.detection.severity_components[k] = 400
    /\ fn.result = 100000

-----------------------------------------------------------------------------
(*           Properties: merge_metrics, windows and CSV rows               *)

\* No vision record of the run falls in [start - 1 s, start + 5 s]
NoVisionInWindow ==
    \A k \in 1..Len(fn.cv_events) :
        \/ fn.cv_events[k].timestamp < StartTime - 1000
        \/ fn.cv_events[k].timestamp > StartTime + WINDOW_SECONDS * 1000

\* C17: a window with sensor samples and no vision record yields an Event
\* whose vision-derived fields are zero, whose traffic_level is 'light', and
\* whose validation_score is min(100, roughness_index * 5) rounded to two
\* decimals, needs_attention being that value, before rounding, above 50.
C17_NoVisionWindowStillEmits ==
    (FnDone("window_event") /\ NoVisionInWindow) =>
        /\ fn.event.emitted
        /\ fn.event.frames_with_pothole = 0
        /\ fn.event.pothole_persistence = 0
        /\ fn.event.pothole_confidence = 0
        /\ fn.event.avg_pothole_size = 0
        /\ fn.event.max_pothole_size = 0
        /\ fn.event.avg_vehicles_per_frame = 0
        /\ fn.event.peak_vehicle_count = 0
        /\ fn.event.avg_vehicle_coverage = 0
        /\ fn.event.peak_vehicle_coverage = 0
        /\ fn.event.traffic_density_score = 0
        /\ fn.event.traffic_level = "light"
        /\ fn.event.validation_score =
              RoundTo(Min2of(1000000, RoughnessIndex(fn.window_readings) * 5), 100)
        /\ fn.event.needs_attention <=>
              (Min2of(1000000, RoughnessIndex(fn.window_readings) * 5) > 500000)

\* C17 witness: the window holds accelerometer z = 9.8, 12.0, 8.0, the only
\* vision records lie before the window; the Event has impact_intensity
\* 12.0, roughness_index 20.03, validation_score 100 and needs_attention.
C17_Witness ==
    /\ FnDone("window_event")
    /\ NoVisionInWindow
    /\ fn.cv_events # <<>>
    /\ \E k \in 1..Len(fn.cv_events) : fn.cv_events[k].data \in
           {[potholes |-> 2, total_pothole_size |-> 30]}
    /\ [k \in 1..Len(fn.window_readings) |-> fn.window_readings[k].z] = <<980, 1200, 800>>
    /\ \A k \in 1..Len(fn.window_readings) : fn.window_readings[k].type = "Accelerometer"
    /\ fn.event.emitted
    /\ fn.event.impact_intensity = 1200
    /\ fn.event.roughness_index = 2003
    /\ fn.event.validation_score = 10000
    /\ fn.event.needs_attention

\* Every field of the row parses
RowParses(row) ==
    /\ row.Time = "ok" /\ row.Values = "ok" /\ row.Common = "ok"
    /\ row.Acc # "bad" /\ row.Gyro # "bad"

\* C18: a row that fails to parse contributes no sample to sensor_data, and
\* every row that parses contributes its samples whatever rows precede or
\* follow it.
C18_BadRowContributesNothing ==
    FnDone("load_sensor_data") =>
        \A n \in 1..Len(fn.rows) :
            LET samples == {k \in 1..Len(fn.sensor_data) : fn.sensor_data[k].row = n}
            IN  IF RowParses(fn.rows[n])
                THEN Cardinality(samples) =
                        (IF fn.rows[n].SensorType THEN 1
                         ELSE (IF fn.rows[n].Acc = "ok" THEN 1 ELSE 0)
                              + (IF fn.rows[n].Gyro = "ok" THEN 1 ELSE 0))
                ELSE samples = {}


\* Positions in the returned list of the events of one frame and of the
\* given kinds
EventsOfFrame(frame_idx, kinds) ==
    {k \in 1..Len(parsed_events) :
        /\ parsed_events[k].frame_idx = frame_idx
        /\ parsed_events[k].event_type \in kinds}

\* The interpolated position of a frame is (0, 0)
Unlocatable(frame_idx) ==
    LET pos == interpolate_gps_for_frame(
                   frame_idx, Max2(Len(congestion_results), Len(pothole_results)),
                   gps_data)
    IN  pos.lat = 0 /\ pos.lon = 0

DamageDue(frame_idx) ==
    /\ \/ pothole_results[frame_idx + 1].potholes > 0
       \/ pothole_results[frame_idx + 1].road_cracks > 0
    /\ ~Unlocatable(frame_idx)

CongestionDue(frame_idx) ==
    /\ \/ congestion_results[frame_idx + 1].vehicle_count >= 3
       \/ congestion_results[frame_idx + 1].coverage_pct >= 15
    /\ ~Unlocatable(frame_idx)

\* C19: the list returned by parse_model_outputs_to_events holds, for every
\* frame, one damage event when the frame has potholes or cracks and can be
\* located and none otherwise, of kind 'pothole' when it has potholes and
\* 'crack' when it has not; one congestion event when the frame has three
\* vehicles or coverage 0.15 and can be located and none otherwise; nothing
\* for a frame whose interpolated position is (0, 0); event_ids that all
\* differ; and in every event the tile_id of the event's own lat and lon.
C19_OneEventPerQualifyingFrame ==
    parse_pc = "done" =>
        /\ \A f \in 0..(Len(pothole_results) - 1) :
              LET found == EventsOfFrame(f, {"pothole", "crack"})
              IN  /\ Cardinality(found) = IF DamageDue(f) THEN 1 ELSE 0
                  /\ \A k \in found :
                        parsed_events[k].event_type =
                            IF pothole_results[f + 1].potholes > 0
                            THEN "pothole" ELSE "crack"
        /\ \A f \in 0..(Len(congestion_results) - 1) :
              Cardinality(EventsOfFrame(f, {"congestion"})) =
                  IF CongestionDue(f) THEN 1 ELSE 0
        /\ \A k \in 1..Len(parsed_events) :
              /\ parsed_events[k].event_type \in {"pothole", "crack", "congestion"}
              /\ parsed_events[k].frame_idx \in
                     0..(Max2(Len(congestion_results), Len(pothole_results)) - 1)
              /\ ~Unlocatable(parsed_events[k].frame_idx)
              /\ parsed_events[k].tile_id = TileIdOfPosition(parsed_events[k])
        /\ \A a, b \in 1..Len(parsed_events) :
              a # b => parsed_events[a].event_id # parsed_events[b].event_id

\* C19 witness: a call has returned; one frame had both kinds of event, one
\* a crack, and one qualifying frame between samples of opposite sign was
\* left out.
C19_Witness ==
    /\ parse_pc = "done"
    /\ \E f \in 0..(Len(pothole_results) - 1) :
          /\ EventsOfFrame(f, {"pothole"}) # {}
          /\ EventsOfFrame(f, {"congestion"}) # {}
    /\ \E k \in 1..Len(parsed_events) : parsed_events[k].event_type = "crack"
    /\ \E f \in 0..(Len(pothole_results) - 1) :
          /\ pothole_results[f + 1].potholes > 0
          /\ congestion_results[f + 1].vehicle_count >= 3
          /\ Unlocatable(f)
          /\ EventsOfFrame(f, {"pothole", "crack", "congestion"}) = {}


\* The fields of a position that interpolate_gps_for_frame interpolates
InterpFields(s) == <<s.lat, s.lon, s.velocity, s.gyro_magnitude>>

Between(x, a, b) == (a <= x /\ x <= b) \/ (b <= x /\ x <= a)

\* C20: a call of interpolate_gps_for_frame with n >= 1 samples and a frame
\* within the video reads gps_data only at indices of 0..n-1 that differ by
\* at most one; frame 0 gives the values of the first sample and the last
\* frame of a video of several frames those of the last sample; and every
\* interpolated field lies between its values in the two samples read.
C20_InterpolationStaysBetweenSamples ==
    (FnDone("interpolate_gps_for_frame") /\ fn.gps_data # <<>>) =>
        LET n    == Len(fn.gps_data)
            low  == InterpFields(fn.gps_data[fn.idx_low + 1])
            high == InterpFields(fn.gps_data[fn.idx_high + 1])
            got  == InterpFields(fn.result)
        IN  /\ fn.idx_low \in 0..(n - 1)
            /\ fn.idx_high \in 0..(n - 1)
            /\ fn.idx_high - fn.idx_low \in {0, 1}
            /\ fn.frame_idx = 0 => got = InterpFields(fn.gps_data[1])
            /\ (fn.total_frames > 1 /\ fn.frame_idx = fn.total_frames - 1)
                  => got = InterpFields(fn.gps_data[n])
            /\ \A k \in 1..4 : Between(got[k], low[k], high[k])


\* The default position of interpolate_gps_for_frame, (30.7333, 76.7794)
\* with no velocity and no rotation
DefaultPosition ==
    [lat |-> 307333, lon |-> 767794, velocity |-> 0, gyro_magnitude |-> 0, den |-> 1]

\* C21: with no location samples interpolate_gps_for_frame returns
\* (30.7333, 76.7794), velocity 0 and gyro_magnitude 0 for every frame, and
\* every event of the call has that position and the tile of that position.
C21_NoSamplesGiveDefaultPosition ==
    (parse_pc = "done" /\ gps_data = <<>>) =>
        /\ \A f \in 0..(Len(pothole_results) - 1) :
              interpolate_gps_for_frame(f, Len(pothole_results), gps_data)
                  = DefaultPosition
        /\ \A k \in 1..Len(parsed_events) :
              /\ parsed_events[k].lat = 307333 /\ parsed_events[k].den = 1
              /\ parsed_events[k].lon = 767794
              /\ parsed_events[k].tile_id = lat_lon_to_tile_id(307333, 767794)
        /\ \A f \in 0..(Len(pothole_results) - 1) :
              /\ (pothole_results[f + 1].potholes > 0
                    \/ pothole_results[f + 1].road_cracks > 0)
                     => EventsOfFrame(f, {"pothole", "crack"}) # {}
              /\ (congestion_results[f + 1].vehicle_count >= 3
                    \/ congestion_results[f + 1].coverage_pct >= 15)
                     => EventsOfFrame(f, {"congestion"}) # {}

\* C21 witness: a call without samples has returned events of both loops
C21_Witness ==
    /\ parse_pc = "done" /\ gps_data = <<>>
    /\ \E a, b \in 1..Len(parsed_events) :
          /\ parsed_events[a].event_type = "crack"
          /\ parsed_events[b].event_type = "congestion"
          /\ parsed_events[a].frame_idx # parsed_events[b].frame_idx


\* The time of the rising edge an event of the run was emitted for
EdgeTime(e) == sensor_data[e.src_index + 1].timestamp

\* C23: the event of a rising edge at t0 is computed from exactly the
\* samples with t0 <= timestamp <= t0 + 5 s, whatever their flags, and from
\* exactly the vision records of each kind with t0 - 1 s <= timestamp
\* <= t0 + 5 s; a sample inside the windows of two edges is in both events.
C23_WindowsHoldExactlyTheirSamples ==
    \A n \in 1..Len(metric_events) :
        LET e  == metric_events[n]
            t0 == EdgeTime(e)
        IN  /\ \A k \in 1..Len(sensor_data) :
                  k \in e.window_readings <=>
                      (t0 <= sensor_data[k].timestamp
                          /\ sensor_data[k].timestamp <= t0 + 5000)
            /\ \A k \in 1..Len(cv_events) :
                  /\ k \in e.window_cv_pothole <=>
                        (/\ cv_events[k].type = "pothole_cv"
                         /\ t0 - 1000 <= cv_events[k].timestamp
                         /\ cv_events[k].timestamp <= t0 + 5000)
                  /\ k \in e.window_cv_congestion <=>
                        (/\ cv_events[k].type = "congestion_cv"
                         /\ t0 - 1000 <= cv_events[k].timestamp
                         /\ cv_events[k].timestamp <= t0 + 5000)
            /\ e.window_readings \subseteq 1..Len(sensor_data)
            /\ e.window_cv_pothole \cup e.window_cv_congestion \subseteq 1..Len(cv_events)

\* C23 witness: two events of edges one second apart share the sample of
\* the second edge, the first also holds a sample with flag 0, and the
\* second holds a vision record of each kind taken a second before its edge.
C23_Witness ==
    /\ merge_pc = "done"
    /\ \E a, b \in 1..Len(metric_events) :
          /\ EdgeTime(metric_events[a]) = 0
          /\ EdgeTime(metric_events[b]) = 1000
          /\ metric_events[b].src_index + 1 \in metric_events[a].window_readings
          /\ \E k \in metric_events[a].window_readings : sensor_data[k].pothole_flag = 0
          /\ metric_events[a].window_cv_pothole # {}
          /\ metric_events[b].window_cv_congestion # {}
          /\ \E k \in metric_events[b].window_cv_congestion : cv_events[k].timestamp = 6000
          /\ \E k \in 1..Len(cv_events) :
                /\ cv_events[k].timestamp = 6000
                /\ k \notin metric_events[a].window_cv_pothole
                /\ k \notin metric_events[a].window_cv_congestion


\* C22: in every emitted window event validation_score is at most 100 and
\* needs_attention is true exactly when the emitted validation_score is
\* greater than 50.
C22_NeedsAttentionIffScoreAboveFifty ==
    (FnDone("window_event") /\ fn.event.emitted) =>
        /\ fn.event.validation_score <= 10000
        /\ fn.event.needs_attention <=> (fn.event.validation_score > 5000)

\* C24: in every emitted window event pothole_persistence lies in [0, 1]
\* and frames_with_pothole is at most total_frames.
C24_PersistenceIsAFraction ==
    (FnDone("window_event") /\ fn.event.emitted) =>
        /\ 0 <= fn.event.pothole_persistence
        /\ fn.event.pothole_persistence <= 1000
        /\ fn.event.frames_with_pothole <= fn.event.total_frames


\* The kinds of event tile_aggregates has a counter for
CountedKinds == {"pothole", "crack", "congestion"}

CountedEvents(row) == row.pothole_count + row.congestion_count + row.crack_count

\* C25: every row of tile_aggregates has between 1 and TILE_LAST_N_EVENTS
\* total_events, its three counters sum to at most total_events and to
\* exactly total_events when every event of the tile is a pothole, a crack or
\* a congestion, its avg_severity (hundredths) is at most its max_severity
\* (points), and its centre is tile_id_to_center of its tile id.
C25_AggregateRowIsWellFormed ==
    \A t \in Tiles :
        LET row == tile_aggregates[t]
        IN  row # NoRow =>
                /\ 1 <= row.total_events
                /\ row.total_events <= TILE_LAST_N_EVENTS
                /\ CountedEvents(row) <= row.total_events
                /\ (\A e \in TileEvents(events, t) : e.event_type \in CountedKinds)
                      => CountedEvents(row) = row.total_events
                /\ row.avg_severity <= 100 * row.max_severity
                /\ row.center_lat = tile_id_to_center(TileIdChars(t)).center_lat
                /\ row.center_lon = tile_id_to_center(TileIdChars(t)).center_lon

\* C25 witness: one call has written a full row of TILE_LAST_N_EVENTS events
\* for one tile and, for the other, a row whose only event has no counter.
C25_Witness ==
    /\ call.pc = "returned"
    /\ call.op = "store_events_and_update_tiles"
    /\ call.tiles = Tiles
    /\ tile_aggregates["T_1_1"] # NoRow
    /\ tile_aggregates["T_1_1"].total_events = TILE_LAST_N_EVENTS
    /\ CountedEvents(tile_aggregates["T_1_1"]) = TILE_LAST_N_EVENTS
    /\ tile_aggregates["T_1_1"].avg_severity < 100 * tile_aggregates["T_1_1"].max_severity
    /\ tile_aggregates["T_1_2"] # NoRow
    /\ tile_aggregates["T_1_2"].total_events = 1
    /\ CountedEvents(tile_aggregates["T_1_2"]) = 0
    /\ tile_aggregates["T_1_2"].center_lat = 135


\* C26: for each tile, last_event_at of the aggregate row never moves
\* backward, whatever the interleaving of the store_events_and_update_tiles
\* calls.
C26_LastEventAtNeverMovesBackward ==
    [][\A t \in Tiles :
          (tile_aggregates[t] # NoRow /\ tile_aggregates'[t] # NoRow)
              => tile_aggregates'[t].last_event_at >= tile_aggregates[t].last_event_at]_vars


\* C27: an upload whose status is 'processing' eventually has status
\* 'completed' or 'failed', whatever its video holds and whatever path the
\* task takes.
C27_ProcessingEventuallyEnds ==
    (processing_status = "processing") ~> (processing_status \in {"completed", "failed"})

\* Background tasks of the upload that are queued or running
ActiveTasks == {r \in Triggers : tasks[r].pc \notin {"none", "done"}}

\* C28: while the status of the upload is 'processing' or 'completed', at
\* most one background task is queued or running for it.
C28_AtMostOneTaskPerUpload ==
    processing_status \in {"processing", "completed"} => Cardinality(ActiveTasks) <= 1

\* C29: over all the attempts to process the upload, each qualifying frame
\* has at most one stored event.
C29_AtMostOneStoredEventPerFrame ==
    \A f \in 1..video.qualifying :
        Cardinality({e \in upload_events : e.frame = f}) <= 1


\* C30: the detection loop starts with previous flag 0, and once the first
\* sample of the sorted stream is scanned and its flag is 1, the first event
\* emitted is the event of that sample.
C30_FirstSampleWithFlagEmits ==
    /\ (merge_pc = "scan" /\ i = 0) => prev_flag = 0
    /\ (MergeScanned /\ i >= 1 /\ sensor_data[1].pothole_flag = 1)
          => /\ Len(metric_events) >= 1
             /\ metric_events[1].src_index = 0
             /\ metric_events[1].event_timestamp = strftime_seconds(sensor_data[1].timestamp)

\* C30 witness: a run is over whose file does not start with its earliest
\* row; the earliest sample has flag 1 and has yielded the first event, and
\* a later sample has yielded another.
C30_Witness ==
    /\ merge_pc = "done"
    /\ Len(sensor_data) >= 3
    /\ sensor_data[1].pothole_flag = 1
    /\ parse_csv_timestamp(csv_rows[1].Time) > sensor_data[1].timestamp
    /\ Len(metric_events) = 2
    /\ metric_events[1].src_index = 0

=============================================================================
